---- MODULE Spec2Model ----
(***************************************************************************)
(* The CRUD request handlers of api/src/utils/routes.js over the redux     *)
(* store (etags, counts) and one database table.                           *)
(*                                                                         *)
(* A handler runs synchronously up to an `await db.<call>(...)`; the       *)
(* database executes the statement at some later point (DbExec) and the    *)
(* handler's continuation runs at some later point again (Resume).  Other  *)
(* requests' synchronous segments interleave at exactly those points.      *)
(*                                                                         *)
(* Strings are TLA+ strings; the JS values undefined and null are the      *)
(* sentinels Undefined and Null.  Request URLs are drawn from URLs without *)
(* '.', '[' or ']', for which lodash's get(state, `etags.${route}`) is a   *)
(* plain key lookup.                                                       *)
(*                                                                         *)
(* Spec and SpecSeq run the handlers; SpecStore dispatches actions to the  *)
(* store on its own; SpecFn applies the exported functions on their own,   *)
(* recording each application in `call`.                                   *)
(***************************************************************************)
EXTENDS Integers, Sequences, FiniteSets, TLC

\* ------------------------------------------------------------------ bounds
MaxRows == 1
MaxReq == 2
MaxFail == 1
MaxOps == 4
MaxSeqOps == 3
MaxTotal == 12
MaxCols == 2

\* --------------------------------------------------------- program constants
MAX_RESULTS == 50
DEFAULT_LIMIT == 10
CONTENT_TYPE == "application/json"
SERVER_URL == "http://localhost:3001"
META_FIELDS == {"created_dt", "updated_dt"}
SCHEMA_OMITTED_FIELDS == META_FIELDS \cup {"id"}

\* ------------------------------------------------------------ value domains
Undefined == "undefined"
Null == "null"
Names == {"a", "b"}
Variants == {"", "?q"}
Ids == 1..MaxRows
NoId == 0
Procs == 1..MaxReq
TableName == "Item"
BasePath == "/items"
CreatedAt == "t0"
UpdatedAt == "t1"

\* !!s for a string-or-undefined-or-null value
Truthy(s) == s # Undefined /\ s # Null /\ s # ""

\* A row of the table; updated_dt is null until the update trigger sets it.
Row(id, name, updated) ==
  [id |-> id, name |-> name, created_dt |-> CreatedAt, updated_dt |-> updated]
NullRow == [k |-> "null"]
UndefRow == [k |-> "undefined"]
Rows == {Row(i, n, u) : i \in Ids, n \in Names, u \in {Null, UpdatedAt}}

\* req.originalUrl of a request for `id` (NoId: the collection URL)
Route(id, var) ==
  IF id = NoId THEN BasePath \o var ELSE BasePath \o "/" \o ToString(id) \o var

\* ------------------------------------------------------------- generateETag
\* The entity as its own enumerable properties, in insertion order, each with
\* its JSON rendering; undefined has none.
Properties(entity) ==
  IF entity \in {UndefRow, NullRow} THEN << >>
  ELSE << <<"id", ToString(entity.id)>>,
          <<"name", "\"" \o entity.name \o "\"">>,
          <<"created_dt", "\"" \o entity.created_dt \o "\"">>,
          <<"updated_dt", IF entity.updated_dt = Null THEN "null"
                          ELSE "\"" \o entity.updated_dt \o "\"">> >>

\* lodash omit(entity, fields)
omit(props, fields) ==
  LET Keep(kv) == kv[1] \notin fields IN SelectSeq(props, Keep)

RECURSIVE JoinProps(_)
JoinProps(props) ==
  IF props = << >> THEN ""
  ELSE "\"" \o props[1][1] \o "\":" \o props[1][2]
       \o (IF Len(props) > 1 THEN "," ELSE "") \o JoinProps(Tail(props))

JSONstringify(props) == "{" \o JoinProps(props) \o "}"

\* etag(): the quoted, length-prefixed digest of the text.  The digest is
\* modelled as collision free: it is the text itself.
etag(text) == "\"" \o ToString(Len(text)) \o "-" \o text \o "\""

\* generateETag hashing the entity as it is, audit fields included
generateETag_withAudit(entity) == etag(JSONstringify(Properties(entity)))

\* etag(JSON.stringify(omit(entity, META_FIELDS)))
generateETag(entity) == etag(JSONstringify(omit(Properties(entity), META_FIELDS)))

AllTags == {generateETag(r) : r \in Rows} \cup {generateETag(UndefRow)}

\* ------------------------------------------------------------- redux store
\* createOrUpdateETag leaving a route that already has a tag as it is
createOrUpdateETag_onlyNew(state, route, entity) ==
  IF route \in DOMAIN state THEN state
  ELSE [r \in DOMAIN state \cup {route} |->
          IF r = route THEN generateETag(entity) ELSE state[r]]

\* { ...state, [route]: generateETag(entity) }
createOrUpdateETag(state, route, entity) ==
  [r \in DOMAIN state \cup {route} |->
     IF r = route THEN generateETag(entity) ELSE state[r]]

\* handleETagDelete dropping every tag
handleETagDelete_all(state, route) == << >>

\* handleETagDelete keeping the tag
handleETagDelete_none(state, route) == state

\* omit(state, route)
handleETagDelete(state, route) ==
  [r \in DOMAIN state \ {route} |-> state[r]]

\* reducer of redux/etags: action = [type, route, entity]
reducer(state, action) ==
  CASE action.type \in {"CREATE_ETAG", "UPDATE_ETAG"} ->
         createOrUpdateETag(state, action.route, action.entity)
    [] action.type = "DELETE_ETAG" -> handleETagDelete(state, action.route)
    [] OTHER -> state

createETag(route, entity) == [type |-> "CREATE_ETAG", route |-> route, entity |-> entity]
updateETag(route, entity) == [type |-> "UPDATE_ETAG", route |-> route, entity |-> entity]
deleteETag(route) == [type |-> "DELETE_ETAG", route |-> route, entity |-> UndefRow]

\* the counts reducer keeping the count it sets and no other
countsReducer_replace(state, action) ==
  IF action.type = "SET_COUNT"
  THEN [r \in {action.route} |-> action.count]
  ELSE state

\* reducer of redux/counts: action = [type, route, count]
countsReducer(state, action) ==
  IF action.type = "SET_COUNT"
  THEN [r \in DOMAIN state \cup {action.route} |->
          IF r = action.route THEN action.count ELSE state[r]]
  ELSE state

setCount(route, count) == [type |-> "SET_COUNT", route |-> route, count |-> count]

\* selectors; an absent count is the JS undefined, written NoCount
NoCount == -1
\* getCount finding no count, whatever the store holds
getCount_absent(state, route) == NoCount

getETag(state, route) == IF route \in DOMAIN state THEN state[route] ELSE Null
getCount(state, route) == IF route \in DOMAIN state THEN state[route] ELSE NoCount

\* ------------------------------------------------------- request validation
isValidContentType(headers) ==
  headers.ctype = Undefined \/ headers.ctype = CONTENT_TYPE

isValidETag_loose(headers, tag, fetch) ==
  LET headerETag == IF fetch THEN headers.ifNoneMatch ELSE headers.ifMatch
  IN tag = headerETag

isValidETag(headers, tag, fetch) ==
  LET headerETag == IF fetch THEN headers.ifNoneMatch ELSE headers.ifMatch
  IN Truthy(tag) /\ Truthy(headerETag) /\ tag = headerETag

\* isValidParams(req, 'id'): !!params.id
isValidParams(r) == r.id # NoId

EmptyBody == [k |-> "empty"]
Body(id, name) == [k |-> "obj", id |-> id, name |-> name]
isEmpty(body) == body = EmptyBody


\* The status a validator sends, or Proceed when it lets the request through.
Proceed == 0

\* validateGET reading the If-Match header for the conditional check
validateGET_wrongHeader(st, r) ==
  IF ~isValidParams(r) \/ ~isValidContentType(r) THEN 400
  ELSE IF isValidETag(r, getETag(st, r.url), FALSE) THEN 304
  ELSE Proceed

validateGET(st, r) ==
  IF ~isValidParams(r) \/ ~isValidContentType(r) THEN 400
  ELSE IF isValidETag(r, getETag(st, r.url), TRUE) THEN 304
  ELSE Proceed

\* validatePOST not calling the custom validation function
validatePOST_noValidator(r) ==
  IF ~isValidContentType(r) \/ isEmpty(r.body) THEN 400
  ELSE Proceed

\* r.valid: the verdict of the custom validation function on the body
\* (TRUE when none is configured)
validatePOST(r) ==
  IF ~isValidContentType(r) \/ isEmpty(r.body) \/ ~r.valid THEN 400
  ELSE Proceed

\* validatePUT checking the tag only when the request carries an If-Match header
validatePUT_optionalHeader(st, r) ==
  IF ~isValidParams(r) \/ ~isValidContentType(r) \/ isEmpty(r.body) \/ ~r.valid
  THEN 400
  ELSE IF Truthy(r.ifMatch) /\ ~isValidETag(r, getETag(st, r.url), FALSE) THEN 412
  ELSE Proceed

\* validatePUT testing the tag precondition before the shape of the request
validatePUT_tagFirst(st, r) ==
  IF ~isValidETag(r, getETag(st, r.url), FALSE) THEN 412
  ELSE IF ~isValidParams(r) \/ ~isValidContentType(r) \/ isEmpty(r.body) \/ ~r.valid
  THEN 400
  ELSE Proceed

validatePUT(st, r) ==
  IF ~isValidParams(r) \/ ~isValidContentType(r) \/ isEmpty(r.body) \/ ~r.valid
  THEN 400
  ELSE IF ~isValidETag(r, getETag(st, r.url), FALSE) THEN 412
  ELSE Proceed

\* validateDELETE letting the request through when no tag is cached for its route
validateDELETE_untagged(st, r) ==
  IF ~isValidParams(r) THEN 400
  ELSE IF Truthy(getETag(st, r.url)) /\ ~isValidETag(r, getETag(st, r.url), FALSE) THEN 412
  ELSE Proceed

\* validateDELETE checking the tag only when the request carries an If-Match header
validateDELETE_optionalHeader(st, r) ==
  IF ~isValidParams(r) THEN 400
  ELSE IF Truthy(r.ifMatch) /\ ~isValidETag(r, getETag(st, r.url), FALSE) THEN 412
  ELSE Proceed

validateDELETE(st, r) ==
  IF ~isValidParams(r) THEN 400
  ELSE IF ~isValidETag(r, getETag(st, r.url), FALSE) THEN 412
  ELSE Proceed

\* update not comparing the body's id with the path's
bodyIdMismatch_ignored(r) == FALSE

\* update: body.id && `${body.id}` !== id
bodyIdMismatch(r) ==
  r.body.id # NoId /\ ToString(r.body.id) # ToString(r.id)

\* ----------------------------------------------------------- the database
\* select * from Item where id = $<id>   (db.oneOrNone)
dbFind(table, id) == table[id]

\* update Item set name = $<name> where id = $<id>   (db.result), with the
\* update trigger setting updated_dt
dbUpdate(table, id, name) ==
  IF table[id] = NullRow THEN table
  ELSE [table EXCEPT ![id] = Row(id, name, UpdatedAt)]

\* delete from Item where id = $<id>   (db.result)
dbDelete(table, id) == [table EXCEPT ![id] = NullRow]

\* the affected-row count of an update or delete by id
rowCount(table, id) == IF table[id] = NullRow THEN 0 ELSE 1

\* insert into Item(name) values ($<name>) returning id   (db.one)
dbInsert(table, id, name) == [table EXCEPT ![id] = Row(id, name, Null)]

\* select count(*) from Item   (db.one)
dbCount(table) == Cardinality({i \in Ids : table[i] # NullRow})

\* The ids of the rows in table order
RECURSIVE IdsFrom(_, _)
IdsFrom(table, i) ==
  IF i > MaxRows THEN << >>
  ELSE (IF table[i] # NullRow THEN <<i>> ELSE << >>) \o IdsFrom(table, i + 1)

\* select * from Item limit $<limit> offset $<offset>   (db.many)
dbPage(table, limit, offset) ==
  LET all == IdsFrom(table, 1)
      from == IF offset < 0 THEN 1 ELSE offset + 1
      to == IF from + limit - 1 > Len(all) THEN Len(all) ELSE from + limit - 1
  IN IF from > Len(all) THEN << >> ELSE SubSeq(all, from, to)

Pending == [k |-> "pending"]
Rejected == [k |-> "rejected"]
NoReply == [k |-> "none"]

\* ---------------------------------------------------------------- requests
NoJson == [k |-> "none"]
NoRes ==
  [sent |-> << >>, ctype |-> Undefined, lastmod |-> Undefined, etag |-> Undefined,
   location |-> Undefined, json |-> NoJson, q |-> << >>, threw |-> FALSE]

NoReq ==
  [method |-> "none", id |-> NoId, url |-> "", ctype |-> Undefined,
   ifMatch |-> Undefined, ifNoneMatch |-> Undefined, body |-> EmptyBody,
   valid |-> TRUE, limit |-> Undefined, offset |-> Undefined]

\* What is remembered of the exchanges that have completed on a route: that the
\* last PUT answered 204 has not been followed by a GET yet (with the If-Match
\* tag it carried), or that a DELETE was answered 200.
NoHist == [k |-> "none"]
Put204(tag) == [k |-> "put204", tag |-> tag]
Del200 == [k |-> "del200"]

NoCall == [f |-> "none"]

NoLoc ==
  [tag |-> Null, limit |-> 0, offset |-> 0, results |-> << >>, failed |-> FALSE,
   after |-> NoHist]

CTypes == {Undefined, CONTENT_TYPE, "text/plain"}
HeaderVals == {Undefined, ""} \cup AllTags
QueryVals == {Undefined, "x", "-1", "0", "1", "51"}

\* The request URLs: an instance URL per id and variant, and the collection URL
\* (which carries no id parameter).
InstanceRoutes == {Route(i, v) : i \in Ids, v \in Variants}

Targets ==
  {[id |-> i, url |-> Route(i, v)] : i \in Ids, v \in Variants}
    \cup {[id |-> NoId, url |-> Route(NoId, "")]}

\* The shapes of a request with a body: its content type, its body and the
\* verdict of the custom validator on it.  OtherId is a body id that is not the
\* path id of any request.
OtherId == MaxRows + 1
Shape(c, b, ok) == [ctype |-> c, body |-> b, valid |-> ok]
Shapes(id) ==
  {Shape(c, Body(i, n), TRUE) :
     c \in {Undefined, CONTENT_TYPE}, i \in {NoId, id} \ {OtherId}, n \in Names}
    \cup {Shape("text/plain", Body(NoId, "a"), TRUE),
          Shape(Undefined, EmptyBody, TRUE),
          Shape(Undefined, Body(NoId, "a"), FALSE),
          Shape(Undefined, Body(OtherId, "b"), TRUE)}

GETs ==
  {[NoReq EXCEPT !.method = "GET", !.id = t.id, !.url = t.url, !.ctype = c,
                 !.ifNoneMatch = h] :
     t \in Targets, c \in CTypes, h \in HeaderVals}
PUTs ==
  UNION {{[NoReq EXCEPT !.method = "PUT", !.id = t.id, !.url = t.url, !.ifMatch = h,
                        !.ctype = s.ctype, !.body = s.body, !.valid = s.valid] :
            s \in Shapes(t.id), h \in HeaderVals} : t \in Targets}
DELETEs ==
  {[NoReq EXCEPT !.method = "DELETE", !.id = t.id, !.url = t.url, !.ifMatch = h] :
     t \in Targets, h \in HeaderVals}
POSTs ==
  {[NoReq EXCEPT !.method = "POST", !.url = Route(NoId, v),
                 !.ctype = s.ctype, !.body = s.body, !.valid = s.valid] :
     v \in Variants, s \in Shapes(NoId)}
\* req.originalUrl of a list request: the collection URL and the query string
\* the request came with
QueryParam(name, v) == IF v = Undefined THEN "" ELSE name \o "=" \o v
ListUrl(l, o) ==
  LET a == QueryParam("limit", l)
      b == QueryParam("offset", o)
  IN Route(NoId, "") \o (IF a = "" /\ b = "" THEN "" ELSE "?")
       \o a \o (IF a # "" /\ b # "" THEN "&" ELSE "") \o b

ListReq(l, o) ==
  [NoReq EXCEPT !.method = "GET_ALL", !.url = ListUrl(l, o), !.limit = l, !.offset = o]

GET_ALLs == {ListReq(l, o) : l \in QueryVals, o \in {Undefined, "-1", "1"}}

\* The well-formed requests: an id in the path, no content type header, a body
\* with the written field only, a validator that accepts, and a conditional
\* header that is absent or some tag.
WellFormed(r) ==
  /\ r.ctype = Undefined /\ r.valid
  /\ r.ifMatch # "" /\ r.ifNoneMatch # ""
  /\ r.method \in {"GET", "PUT", "DELETE"} => r.id # NoId
  /\ r.method \in {"PUT", "POST"} => ~isEmpty(r.body) /\ r.body.id = NoId
  /\ r.method = "POST" => r.url = Route(NoId, "")
  /\ r.method = "GET_ALL" => (r.limit \notin {"-1", "0", "51"} /\ r.offset # "-1")


\* ------------------------------------------------------------ the response
\* res.sendStatus / res.json / res.status().send() on a fresh response
Send(rs, status) == [rs EXCEPT !.sent = Append(@, status)]

\* The same on a response that may already have been sent: the response object
\* either throws (node's http: headers already sent), which ends the handler, or
\* takes the call (a response object that records calls).
SendOutcomes(rs, status) ==
  IF rs.sent = << >> THEN {Send(rs, status)}
  ELSE {Send(rs, status), [rs EXCEPT !.threw = TRUE]}

Issue(rs, kind) == [rs EXCEPT !.q = Append(@, kind)]

\* --------------------------------------------------- handler continuations
\* handleGET dispatching createETag before it looks at the entity
handleGET_tagFirst(st, r, tag0, entity, rs) ==
  LET st1 == IF ~Truthy(tag0) THEN reducer(st, createETag(r.url, entity)) ELSE st
      tag1 == IF ~Truthy(tag0) THEN getETag(st1, r.url) ELSE tag0
  IN IF entity = NullRow THEN [res |-> Send(rs, 404), etags |-> st1]
     ELSE IF entity = UndefRow
          THEN [res |-> [rs EXCEPT !.ctype = CONTENT_TYPE, !.threw = TRUE], etags |-> st1]
          ELSE [res |-> [Send(rs, 200) EXCEPT
                           !.ctype = CONTENT_TYPE,
                           !.lastmod = IF Truthy(entity.updated_dt)
                                       THEN entity.updated_dt ELSE entity.created_dt,
                           !.etag = tag1,
                           !.json = [k |-> "entity", row |-> entity]],
                etags |-> st1]

\* handleGET dispatching createETag whether or not a tag was cached
handleGET_alwaysCreate(st, r, tag0, entity, rs) ==
  IF entity = NullRow THEN [res |-> Send(rs, 404), etags |-> st]
  ELSE LET st1 == reducer(st, createETag(r.url, entity))
           tag1 == getETag(st1, r.url)
       IN IF entity = UndefRow
          THEN [res |-> [rs EXCEPT !.ctype = CONTENT_TYPE, !.threw = TRUE], etags |-> st1]
          ELSE [res |-> [Send(rs, 200) EXCEPT
                           !.ctype = CONTENT_TYPE,
                           !.lastmod = IF Truthy(entity.updated_dt)
                                       THEN entity.updated_dt ELSE entity.created_dt,
                           !.etag = tag1,
                           !.json = [k |-> "entity", row |-> entity]],
                etags |-> st1]

\* retrieve.handleGET after `await db.oneOrNone(findQuery)`: `entity` is the row,
\* null, or undefined when the call rejected (the catch returns undefined);
\* tag0 is the tag read before the await.
handleGET(st, r, tag0, entity, rs) ==
  IF entity = NullRow THEN [res |-> Send(rs, 404), etags |-> st]
  ELSE LET st1 == IF ~Truthy(tag0) THEN reducer(st, createETag(r.url, entity)) ELSE st
           tag1 == IF ~Truthy(tag0) THEN getETag(st1, r.url) ELSE tag0
       IN IF entity = UndefRow
          THEN \* entity.updated_dt throws a TypeError after the first setHeader
               [res |-> [rs EXCEPT !.ctype = CONTENT_TYPE, !.threw = TRUE], etags |-> st1]
          ELSE [res |-> [Send(rs, 200) EXCEPT
                           !.ctype = CONTENT_TYPE,
                           !.lastmod = IF Truthy(entity.updated_dt)
                                       THEN entity.updated_dt ELSE entity.created_dt,
                           !.etag = tag1,
                           !.json = [k |-> "entity", row |-> entity]],
                etags |-> st1]

\* update answering 204 and leaving the cached tag in place
updateResult_keepTag(st, r, result, rs) ==
  IF result = Rejected THEN [res |-> [rs EXCEPT !.threw = TRUE], etags |-> st]
  ELSE IF result.rowCount = 1
       THEN [res |-> Send(rs, 204), etags |-> st]
       ELSE [res |-> Send(rs, 500), etags |-> st]

\* update answering 204 and clearing the tag whatever the affected-row count
updateResult_anyCount(st, r, result, rs) ==
  IF result = Rejected THEN [res |-> [rs EXCEPT !.threw = TRUE], etags |-> st]
  ELSE [res |-> Send(rs, 204), etags |-> reducer(st, deleteETag(r.url))]

\* update checking the tag again after the statement has run
updateResult_recheck(st, r, result, rs) ==
  IF result = Rejected THEN [res |-> [rs EXCEPT !.threw = TRUE], etags |-> st]
  ELSE IF ~isValidETag(r, getETag(st, r.url), FALSE)
       THEN [res |-> Send(rs, 412), etags |-> st]
  ELSE IF result.rowCount = 1
       THEN [res |-> Send(rs, 204), etags |-> reducer(st, deleteETag(r.url))]
       ELSE [res |-> Send(rs, 500), etags |-> st]

\* update after `await db.result(updateQuery)`: result is undefined when the
\* call rejected, and result.rowCount then throws a TypeError.
updateResult(st, r, result, rs) ==
  IF result = Rejected THEN [res |-> [rs EXCEPT !.threw = TRUE], etags |-> st]
  ELSE IF result.rowCount = 1
       THEN [res |-> Send(rs, 204), etags |-> reducer(st, deleteETag(r.url))]
       ELSE [res |-> Send(rs, 500), etags |-> st]

\* create leaving the cached count as it is
createResult_keepCount(sc, r, result, rs) ==
  IF result = Rejected \/ result.id = NoId
  THEN [res |-> Send(rs, 500), counts |-> sc]
  ELSE [res |-> [Send(rs, 201) EXCEPT
                   !.location = SERVER_URL \o r.url \o "/" \o ToString(result.id)],
        counts |-> sc]

\* create answering 201 whatever the insert returned
createResult_always201(sc, r, result, rs) ==
  LET id == IF result = Rejected THEN NoId ELSE result.id
  IN [res |-> [Send(rs, 201) EXCEPT
                 !.location = SERVER_URL \o r.url \o "/" \o ToString(id)],
      counts |-> countsReducer(sc, setCount(TableName, 0))]

\* create after `await db.one(insertQuery)`
createResult(sc, r, result, rs) ==
  IF result = Rejected \/ result.id = NoId
  THEN [res |-> Send(rs, 500), counts |-> sc]
  ELSE [res |-> [Send(rs, 201) EXCEPT
                   !.location = SERVER_URL \o r.url \o "/" \o ToString(result.id)],
        counts |-> countsReducer(sc, setCount(TableName, 0))]

\* remove going on to the delete statement when the row was not found
removeFound_noCheck(entity, rs) ==
  IF entity = UndefRow THEN [res |-> Send(rs, 500), go |-> TRUE]
  ELSE [res |-> rs, go |-> TRUE]

\* remove after `await db.oneOrNone(findQuery)`: handleError answers 500 on a
\* rejection and the handler goes on with entity undefined.
removeFound(entity, rs) ==
  IF entity = UndefRow THEN [res |-> Send(rs, 500), go |-> TRUE]
  ELSE IF entity = NullRow THEN [res |-> Send(rs, 404), go |-> FALSE]
  ELSE [res |-> rs, go |-> TRUE]

\* remove leaving the cached count as it is after a delete
removeResult_keepCount(se, sc, r, result, rs) ==
  IF result = Rejected
  THEN {[res |-> [x EXCEPT !.threw = TRUE], etags |-> se, counts |-> sc] :
          x \in SendOutcomes(rs, 500)}
  ELSE IF result.rowCount = 1
  THEN {IF x.threw THEN [res |-> x, etags |-> se, counts |-> sc]
        ELSE [res |-> x, etags |-> reducer(se, deleteETag(r.url)), counts |-> sc] :
          x \in SendOutcomes(rs, 200)}
  ELSE {[res |-> x, etags |-> se, counts |-> sc] : x \in SendOutcomes(rs, 500)}

\* remove after `await db.result(deleteQuery)`
removeResult(se, sc, r, result, rs) ==
  IF result = Rejected
  THEN {[res |-> [x EXCEPT !.threw = TRUE], etags |-> se, counts |-> sc] :
          x \in SendOutcomes(rs, 500)}
  ELSE IF result.rowCount = 1
  THEN {IF x.threw THEN [res |-> x, etags |-> se, counts |-> sc]
        ELSE [res |-> x, etags |-> reducer(se, deleteETag(r.url)),
              counts |-> countsReducer(sc, setCount(TableName, 0))] :
          x \in SendOutcomes(rs, 200)}
  ELSE {[res |-> x, etags |-> se, counts |-> sc] : x \in SendOutcomes(rs, 500)}

\* parseInt(value, 10) of a query parameter
parseInt(s) ==
  CASE s = "-1" -> [nan |-> FALSE, n |-> -1]
    [] s = "0" -> [nan |-> FALSE, n |-> 0]
    [] s = "1" -> [nan |-> FALSE, n |-> 1]
    [] s = "5" -> [nan |-> FALSE, n |-> 5]
    [] s = "51" -> [nan |-> FALSE, n |-> 51]
    [] OTHER -> [nan |-> TRUE, n |-> 0]

\* the parsed query parameter taken as it is, with no default
orDefault_noDefault(x, d) == x.n

\* if (!offset) offset = 0;  if (!limit) limit = DEFAULT_LIMIT;
orDefault(x, d) == IF x.nan \/ x.n = 0 THEN d ELSE x.n

makeLink(r, offset, limit) ==
  SERVER_URL \o r.url \o "?offset=" \o ToString(offset) \o "&limit=" \o ToString(limit)

\* the envelope of retrieveAll
envelope(r, results, total, offset, limit) ==
  [k |-> "list", data |-> results,
   meta |->
     [total |-> total, offset |-> offset, limit |-> limit,
      next |-> IF offset + limit < total THEN makeLink(r, offset + limit, limit) ELSE Null,
      previous |-> IF offset > 0
                   THEN makeLink(r, IF offset - limit > 0 THEN offset - limit ELSE 0, limit)
                   ELSE Null]]

\* res.json(envelope) at the end of retrieveAll
listRespond(r, l, total, rs) ==
  {IF x.threw THEN x
   ELSE [x EXCEPT !.json = envelope(r, l.results, total, l.offset, l.limit)] :
     x \in SendOutcomes(rs, 200)}


\* ------------------------------------------------ write fields and routing
\* A JS array of strings, or undefined
JSUndefined == [k |-> "undefined"]
JSArray(seq) == [k |-> "array", v |-> seq]
JSString(str) == [k |-> "string", v |-> str]

Elems(seq) == {seq[i] : i \in 1..Len(seq)}

\* A JS object is the sequence of its own <<key, value>> properties, in
\* insertion order.
ObjectKeys(object) == [i \in 1..Len(object) |-> object[i][1]]

hasKey(object, key) == \E i \in 1..Len(object) : object[i][1] = key

valueOf(object, key) == object[CHOOSE i \in 1..Len(object) : object[i][1] = key][2]

\* object[key] = value: an existing key keeps its place and takes the value
assign(object, key, value) ==
  IF hasKey(object, key)
  THEN [i \in 1..Len(object) |->
          IF object[i][1] = key THEN <<key, value>> ELSE object[i]]
  ELSE Append(object, <<key, value>>)

\* { ...object, ...source }
RECURSIVE spread(_, _)
spread(object, source) ==
  IF source = << >> THEN object
  ELSE spread(assign(object, source[1][1], source[1][2]), Tail(source))


\* createSchema spreading the caller's columns last
createSchema_callerLast(schema) ==
  spread(<< <<"id", "SERIAL">>, <<"created_dt", "TIMESTAMP WITH TIME ZONE DEFAULT CURRENT_TIMESTAMP">>,
            <<"updated_dt", "TIMESTAMP">> >>, schema)

\* { id: 'SERIAL', ...schema, created_dt: '...', updated_dt: 'TIMESTAMP' }
createSchema(schema) ==
  assign(assign(spread(<< <<"id", "SERIAL">> >>, schema),
                "created_dt", "TIMESTAMP WITH TIME ZONE DEFAULT CURRENT_TIMESTAMP"),
         "updated_dt", "TIMESTAMP")

\* getFilteredFields keeping every key of the schema
getFilteredFields_all(schema, schemaFields) ==
  IF schemaFields = JSUndefined \/ Len(schemaFields.v) = 0
  THEN schema
  ELSE schemaFields.v

\* getFilteredFields(schema, schemaFields); a schema is given by Object.keys
getFilteredFields(schema, schemaFields) ==
  IF schemaFields = JSUndefined \/ Len(schemaFields.v) = 0
  THEN LET Kept(f) == f \notin SCHEMA_OMITTED_FIELDS IN SelectSeq(schema, Kept)
  ELSE schemaFields.v

\* lodash pick(object, fields); an object is a function of its own keys
pick(object, fields) ==
  [f \in DOMAIN object \cap Elems(fields) |-> object[f]]

\* pick(schema, fields), as keys in the order of `fields`
pickKeys(schema, fields) ==
  LET In(f) == f \in Elems(schema) IN SelectSeq(fields, In)

\* { id, ...pick(body, fields) }
withId(id, object) ==
  [f \in DOMAIN object \cup {"id"} |-> IF f \in DOMAIN object THEN object[f] ELSE id]

GET == "GET"
PUT == "PUT"
POST == "POST"
DELETE == "DELETE"
GET_ALL == "GET_ALL"

\* createCRUDRoute taking a single method name for no choice at all
methodList_default(methods) ==
  IF methods = JSUndefined \/ methods = JSString("") \/ methods.k = "string"
  THEN <<GET, GET_ALL, PUT, POST, DELETE>>
  ELSE methods.v

\* createCRUDRoute: the list of methods that options.methods stands for
methodList(methods) ==
  IF methods = JSUndefined \/ methods = JSString("")
  THEN <<GET, GET_ALL, PUT, POST, DELETE>>
  ELSE IF methods.k # "array" THEN <<methods.v>>
  ELSE methods.v

Binding(verb, path, handler) == [verb |-> verb, path |-> path, handler |-> handler]

\* createCRUDRoute(tableName, schema, options): the router's bindings, in the
\* order they are added
createCRUDRoute(methods) ==
  LET list == Elems(methodList(methods))
      On(m, b) == IF m \in list THEN <<b>> ELSE << >>
  IN On(GET_ALL, Binding("get", "/", "retrieveAll"))
       \o On(GET, Binding("get", "/:id", "retrieve"))
       \o On(POST, Binding("post", "/", "create"))
       \o On(PUT, Binding("put", "/:id", "update"))
       \o On(DELETE, Binding("delete", "/:id", "remove"))

\* ------------------------------------------------------------ query builder
JSObject(object) == [k |-> "object", v |-> object]

\* A text under construction is the sequence of its pieces; a space is a piece
\* of its own, so that trim() is the removal of spaces at both ends.
RECURSIVE Concat(_)
Concat(pieces) == IF pieces = << >> THEN "" ELSE pieces[1] \o Concat(Tail(pieces))

RECURSIVE trimStart(_)
trimStart(pieces) ==
  IF pieces # << >> /\ pieces[1] = " " THEN trimStart(Tail(pieces)) ELSE pieces

RECURSIVE trimEnd(_)
trimEnd(pieces) ==
  IF pieces # << >> /\ pieces[Len(pieces)] = " "
  THEN trimEnd(SubSeq(pieces, 1, Len(pieces) - 1))
  ELSE pieces

trim(pieces) == trimEnd(trimStart(pieces))

\* createBindings joining the predicates of an object with ' or'
defaultJoiner_or(isList) == IF isList THEN << >> ELSE <<" ", "or">>

\* createBindings: joiner = isList ? '' : ' and'   (joinWith not given)
defaultJoiner(isList) == IF isList THEN << >> ELSE <<" ", "and">>

\* the reduce of createBindings from element i on:
\*   `${bindings} ${f} = $<${f}>${i + 1 < l ? joiner : ''}`.trim()
RECURSIVE reduceBindings(_, _, _, _)
reduceBindings(bindings, list, joiner, i) ==
  IF i > Len(list) THEN bindings
  ELSE reduceBindings(
         trim(bindings \o <<" ", list[i], " ", "=", " ", "$<" \o list[i] \o ">">>
                \o (IF i < Len(list) THEN joiner ELSE << >>)),
         list, joiner, i + 1)

\* createBindings(fields) with no joinWith; fields is an array or an object
createBindings(fields) ==
  LET isList == fields.k = "array"
      list == IF isList THEN fields.v ELSE ObjectKeys(fields.v)
  IN Concat(reduceBindings(<< >>, list, defaultJoiner(isList), 1))

\* lodash isEmpty of undefined, an array or an object
isEmptyBindings(bindings) == bindings = JSUndefined \/ bindings.v = << >>

\* createWhereClause(bindings)
createWhereClause(bindings) ==
  IF isEmptyBindings(bindings) THEN "" ELSE " where " \o createBindings(bindings)

\* `${names}`: Array.prototype.toString joins with ','
RECURSIVE arrayToString(_)
arrayToString(names) ==
  IF names = << >> THEN ""
  ELSE names[1] \o (IF Len(names) > 1 THEN "," ELSE "") \o arrayToString(Tail(names))

\* the reduce of createInsertQuery from element i on; the callback returns
\*   `$<${name}>${i + 1 < l ? ', ' : ''}`
\* and makes no use of what was accumulated
RECURSIVE reduceVals(_, _, _)
reduceVals(vs, names, i) ==
  IF i > Len(names) THEN vs
  ELSE reduceVals("$<" \o names[i] \o ">" \o (IF i < Len(names) THEN ", " ELSE ""),
                  names, i + 1)

\* createInsertQuery(table, values)
createInsertQuery(table, values) ==
  LET names == ObjectKeys(values)
      vals == reduceVals("", names, 1)
  IN "insert into " \o table \o "(" \o arrayToString(names) \o ") values ("
       \o vals \o ") returning id"

\* -------------------------------------------------------------------- state
VARIABLES
  db,       \* the table: id -> row, or NullRow
  nextId,   \* the table's serial
  etags,    \* store.getState().etags: route -> tag
  counts,   \* store.getState().counts: table name -> count
  pc,       \* per request slot: where its handler is
  req,      \* per slot: the request
  loc,      \* per slot: the handler's local variables
  reply,    \* per slot: the awaited database call: Pending, its result, Rejected
  res,      \* per slot: the response object
  fails,    \* database calls rejected so far
  ops,      \* requests started so far
  hist,     \* per instance route: what completed on it (history, not program state)
  call      \* the last function applied on its own: its arguments and what it returned

vars == <<db, nextId, etags, counts, pc, req, loc, reply, res, fails, ops, hist, call>>

Init ==
  /\ \/ db = [i \in Ids |-> IF i = 1 THEN Row(1, "a", Null) ELSE NullRow] /\ nextId = 2
     \/ db = [i \in Ids |-> NullRow] /\ nextId = 1
  /\ etags = << >>
  /\ counts = << >>
  /\ pc = [p \in Procs |-> "idle"]
  /\ req = [p \in Procs |-> NoReq]
  /\ loc = [p \in Procs |-> NoLoc]
  /\ reply = [p \in Procs |-> NoReply]
  /\ res = [p \in Procs |-> NoRes]
  /\ fails = 0
  /\ ops = 0
  /\ hist = [u \in InstanceRoutes |-> NoHist]
  /\ call = NoCall

\* The status the client got: the first one sent (0: none).
Answered(rs) == IF rs.sent = << >> THEN 0 ELSE rs.sent[1]

\* The history of the request's route when the request arrives
Before(r) == IF r.url \in InstanceRoutes THEN hist[r.url] ELSE NoHist

\* The history once the exchange (r, rs) has completed.  A GET that queried the
\* database has run its continuation since any update answered before it.
Record(h, r, rs) ==
  IF r.url \notin InstanceRoutes THEN h
  ELSE IF r.method = "PUT" /\ Answered(rs) = 204 THEN [h EXCEPT ![r.url] = Put204(r.ifMatch)]
  ELSE IF r.method = "DELETE" /\ Answered(rs) = 200 THEN [h EXCEPT ![r.url] = Del200]
  ELSE IF r.method = "GET" /\ rs.q # << >> /\ h[r.url].k = "put204"
       THEN [h EXCEPT ![r.url] = NoHist]
  ELSE h

\* No finished exchange is waiting to be taken off its slot.
NoneDone == \A q \in Procs : pc[q] # "done"

\* A request reaches its handler; it takes the first free slot.
Accept(p, r) ==
  /\ NoneDone
  /\ pc[p] = "idle"
  /\ \A q \in Procs : q < p => pc[q] # "idle"
  /\ ops < MaxOps
  /\ ops' = ops + 1

\* What the handler's continuation can still read of the request once it has
\* suspended: params, originalUrl, the written body field, and the If-Match tag
\* that passed the check.  The fields only the validation read are dropped.
Closure(r) ==
  [NoReq EXCEPT !.method = r.method, !.id = r.id, !.url = r.url,
                !.ifMatch = r.ifMatch,
                !.body = IF isEmpty(r.body) THEN EmptyBody ELSE Body(NoId, r.body.name)]

\* The handler answered and returned (or threw) in its first segment.
Answer(p, r, rs) ==
  /\ pc' = [pc EXCEPT ![p] = "done"]
  /\ req' = [req EXCEPT ![p] = r]
  /\ res' = [res EXCEPT ![p] = rs]
  /\ UNCHANGED reply

\* The handler suspends at its first `await db.<call>`.
Suspend(p, r, at) ==
  /\ pc' = [pc EXCEPT ![p] = at]
  /\ req' = [req EXCEPT ![p] = Closure(r)]
  /\ res' = [res EXCEPT ![p] = Issue(NoRes, at)]
  /\ reply' = [reply EXCEPT ![p] = Pending]

\* The handler answered and returned (or threw) in a continuation.
Finish(p, rs) ==
  /\ pc' = [pc EXCEPT ![p] = "done"]
  /\ res' = [res EXCEPT ![p] = rs]
  /\ reply' = [reply EXCEPT ![p] = NoReply]
  /\ UNCHANGED req

\* The handler suspends at a further `await db.<call>`.
Await(p, at, rs) ==
  /\ pc' = [pc EXCEPT ![p] = at]
  /\ res' = [res EXCEPT ![p] = Issue(rs, at)]
  /\ reply' = [reply EXCEPT ![p] = Pending]
  /\ UNCHANGED req

Replied(p, at) == NoneDone /\ pc[p] = at /\ reply[p] \notin {Pending, NoReply}

\* ---- retrieve(name): GET /:id
StartGET(p, r) ==
  /\ Accept(p, r)
  /\ LET v == validateGET(etags, r) IN
       IF v # Proceed
       THEN /\ loc' = [loc EXCEPT ![p] = [NoLoc EXCEPT !.after = Before(r)]]
            /\ Answer(p, r, Send(NoRes, v))
       ELSE /\ loc' = [loc EXCEPT ![p] = [NoLoc EXCEPT !.tag = getETag(etags, r.url),
                                                       !.after = Before(r)]]
            /\ Suspend(p, r, "find")
  /\ hist' = IF Before(r).k = "put204" THEN [hist EXCEPT ![r.url] = NoHist] ELSE hist
  /\ UNCHANGED <<db, nextId, etags, counts, fails, call>>

ResumeGET(p) ==
  /\ req[p].method = "GET"
  /\ Replied(p, "find")
  /\ LET entity == IF reply[p] = Rejected THEN UndefRow ELSE reply[p].row
         out == handleGET(etags, req[p], loc[p].tag, entity, res[p])
     IN /\ etags' = out.etags
        /\ Finish(p, out.res)
  /\ UNCHANGED <<db, nextId, counts, loc, fails, ops, hist, call>>

\* ---- update(name, schema): PUT /:id
StartPUT(p, r) ==
  /\ Accept(p, r)
  /\ LET v == validatePUT(etags, r) IN
       IF v # Proceed THEN Answer(p, r, Send(NoRes, v))
       ELSE IF bodyIdMismatch(r) THEN Answer(p, r, Send(NoRes, 400))
       ELSE Suspend(p, r, "update")
  /\ loc' = [loc EXCEPT ![p] = [NoLoc EXCEPT !.after = Before(r)]]
  /\ UNCHANGED <<db, nextId, etags, counts, fails, hist, call>>

ResumePUT(p) ==
  /\ Replied(p, "update")
  /\ LET out == updateResult(etags, req[p], reply[p], res[p])
     IN /\ etags' = out.etags
        /\ Finish(p, out.res)
  /\ UNCHANGED <<db, nextId, counts, loc, fails, ops, hist, call>>

\* ---- create(name, schema): POST /
StartPOST(p, r) ==
  /\ nextId + Cardinality({q \in Procs : pc[q] = "insert" /\ reply[q] = Pending}) <= MaxRows
  /\ Accept(p, r)
  /\ LET v == validatePOST(r) IN
       IF v # Proceed THEN Answer(p, r, Send(NoRes, v))
       ELSE Suspend(p, r, "insert")
  /\ UNCHANGED <<db, nextId, etags, counts, loc, fails, hist, call>>

ResumePOST(p) ==
  /\ Replied(p, "insert")
  /\ LET out == createResult(counts, req[p], reply[p], res[p])
     IN /\ counts' = out.counts
        /\ Finish(p, out.res)
  /\ UNCHANGED <<db, nextId, etags, loc, fails, ops, hist, call>>

\* ---- remove(name): DELETE /:id
StartDELETE(p, r) ==
  /\ Accept(p, r)
  /\ LET v == validateDELETE(etags, r) IN
       IF v # Proceed THEN Answer(p, r, Send(NoRes, v))
       ELSE Suspend(p, r, "find")
  /\ loc' = [loc EXCEPT ![p] = [NoLoc EXCEPT !.after = Before(r)]]
  /\ UNCHANGED <<db, nextId, etags, counts, fails, hist, call>>

ResumeDELETEfind(p) ==
  /\ req[p].method = "DELETE"
  /\ Replied(p, "find")
  /\ LET entity == IF reply[p] = Rejected THEN UndefRow ELSE reply[p].row
         out == removeFound(entity, res[p])
     IN IF out.go THEN Await(p, "delete", out.res) ELSE Finish(p, out.res)
  /\ UNCHANGED <<db, nextId, etags, counts, loc, fails, ops, hist, call>>

ResumeDELETE(p) ==
  /\ Replied(p, "delete")
  /\ \E out \in removeResult(etags, counts, req[p], reply[p], res[p]) :
       /\ etags' = out.etags
       /\ counts' = out.counts
       /\ Finish(p, out.res)
  /\ UNCHANGED <<db, nextId, loc, fails, ops, hist, call>>

\* ---- retrieveAll(name): GET /
StartGET_ALL(p, r) ==
  /\ Accept(p, r)
  /\ LET limit == orDefault(parseInt(r.limit), DEFAULT_LIMIT)
         offset == orDefault(parseInt(r.offset), 0)
     IN IF limit > MAX_RESULTS
        THEN Answer(p, r, Send(NoRes, 400)) /\ UNCHANGED loc
        ELSE /\ loc' = [loc EXCEPT ![p] = [NoLoc EXCEPT !.limit = limit, !.offset = offset]]
             /\ Suspend(p, r, "page")
  /\ UNCHANGED <<db, nextId, etags, counts, fails, hist, call>>

ResumeGET_ALLpage(p) ==
  /\ Replied(p, "page")
  /\ LET failed == reply[p] = Rejected
         rs == IF failed THEN Send(res[p], 500) ELSE res[p]
         l == [loc[p] EXCEPT !.failed = failed,
                             !.results = IF failed THEN << >> ELSE reply[p].rows]
         total == getCount(counts, TableName)
     IN /\ loc' = [loc EXCEPT ![p] = l]
        /\ IF total = NoCount \/ total = 0
           THEN Await(p, "count", rs)
           ELSE \E x \in listRespond(req[p], l, total, rs) : Finish(p, x)
  /\ UNCHANGED <<db, nextId, etags, counts, fails, ops, hist, call>>

ResumeGET_ALLcount(p) ==
  /\ Replied(p, "count")
  /\ IF reply[p] = Rejected
     THEN \* the catch answers 500 and `const { count } = undefined` throws
          /\ \E x \in SendOutcomes(res[p], 500) : Finish(p, [x EXCEPT !.threw = TRUE])
          /\ UNCHANGED counts
     ELSE /\ counts' = countsReducer(counts, setCount(TableName, reply[p].count))
          /\ \E x \in listRespond(req[p], loc[p], reply[p].count, res[p]) : Finish(p, x)
  /\ UNCHANGED <<db, nextId, etags, loc, fails, ops, hist, call>>

\* ---- the database executes the statement a handler awaits
DbExec(p) ==
  /\ NoneDone
  /\ reply[p] = Pending
  /\ LET id == req[p].id IN
     CASE pc[p] = "find" ->
            /\ reply' = [reply EXCEPT ![p] = [k |-> "row", row |-> dbFind(db, id)]]
            /\ UNCHANGED <<db, nextId>>
       [] pc[p] = "update" ->
            /\ reply' = [reply EXCEPT ![p] = [k |-> "result", rowCount |-> rowCount(db, id)]]
            /\ db' = dbUpdate(db, id, req[p].body.name)
            /\ UNCHANGED nextId
       [] pc[p] = "delete" ->
            /\ reply' = [reply EXCEPT ![p] = [k |-> "result", rowCount |-> rowCount(db, id)]]
            /\ db' = dbDelete(db, id)
            /\ UNCHANGED nextId
       [] pc[p] = "insert" ->
            /\ reply' = [reply EXCEPT ![p] = [k |-> "one", id |-> nextId]]
            /\ db' = dbInsert(db, nextId, req[p].body.name)
            /\ nextId' = nextId + 1
       [] pc[p] = "page" ->
            \* the database rejects a negative limit or offset, and db.many
            \* rejects when the query returns no rows
            /\ LET rows == dbPage(db, loc[p].limit, loc[p].offset)
               IN reply' = [reply EXCEPT ![p] =
                              IF loc[p].limit < 0 \/ loc[p].offset < 0 \/ rows = << >>
                              THEN Rejected ELSE [k |-> "many", rows |-> rows]]
            /\ UNCHANGED <<db, nextId>>
       [] pc[p] = "count" ->
            /\ reply' = [reply EXCEPT ![p] = [k |-> "count", count |-> dbCount(db)]]
            /\ UNCHANGED <<db, nextId>>
  /\ UNCHANGED <<etags, counts, pc, req, loc, res, fails, ops, hist, call>>

\* ---- the database call rejects (connection lost, statement failed)
DbReject(p) ==
  /\ NoneDone
  /\ reply[p] = Pending
  /\ fails < MaxFail
  /\ fails' = fails + 1
  /\ reply' = [reply EXCEPT ![p] = Rejected]
  /\ UNCHANGED <<db, nextId, etags, counts, pc, req, loc, res, ops, hist, call>>

\* ---- the slot is free for the next request
Retire(p) ==
  /\ pc[p] = "done"
  /\ pc' = [pc EXCEPT ![p] = "idle"]
  /\ req' = [req EXCEPT ![p] = NoReq]
  /\ loc' = [loc EXCEPT ![p] = NoLoc]
  /\ res' = [res EXCEPT ![p] = NoRes]
  /\ hist' = Record(hist, req[p], res[p])
  /\ UNCHANGED <<db, nextId, etags, counts, reply, fails, ops, call>>

\* Requests handled concurrently; the requests are the well-formed ones.
Next ==
  \E p \in Procs :
    \/ \E r \in {x \in GETs : WellFormed(x)} : StartGET(p, r)
    \/ \E r \in {x \in PUTs : WellFormed(x)} : StartPUT(p, r)
    \/ \E r \in {x \in POSTs : WellFormed(x)} : StartPOST(p, r)
    \/ \E r \in {x \in DELETEs : WellFormed(x)} : StartDELETE(p, r)
    \/ \E r \in {x \in GET_ALLs : WellFormed(x)} : StartGET_ALL(p, r)
    \/ ResumeGET(p)
    \/ ResumePUT(p)
    \/ ResumePOST(p)
    \/ ResumeDELETEfind(p)
    \/ ResumeDELETE(p)
    \/ ResumeGET_ALLpage(p)
    \/ ResumeGET_ALLcount(p)
    \/ DbExec(p)
    \/ DbReject(p)
    \/ Retire(p)

Spec == Init /\ [][Next]_vars

\* Requests handled one at a time, MaxSeqOps of them at most; the requests are
\* of every shape.
NextSeq ==
  \E p \in {1} :
    \/ \E r \in GETs : ops < MaxSeqOps /\ StartGET(p, r)
    \/ \E r \in PUTs : ops < MaxSeqOps /\ StartPUT(p, r)
    \/ \E r \in POSTs : ops < MaxSeqOps /\ StartPOST(p, r)
    \/ \E r \in DELETEs : ops < MaxSeqOps /\ StartDELETE(p, r)
    \/ \E r \in GET_ALLs : ops < MaxSeqOps /\ StartGET_ALL(p, r)
    \/ ResumeGET(p)
    \/ ResumePUT(p)
    \/ ResumePOST(p)
    \/ ResumeDELETEfind(p)
    \/ ResumeDELETE(p)
    \/ ResumeGET_ALLpage(p)
    \/ ResumeGET_ALLcount(p)
    \/ DbExec(p)
    \/ DbReject(p)
    \/ Retire(p)

SpecSeq == Init /\ [][NextSeq]_vars

\* ------------------------------------------------- the store, on its own
\* The actions dispatched to the store: the four action creators over a few
\* routes and tables, and an action of another type.
StoreRoutes == {Route(1, ""), Route(1, "?q"), Route(NoId, "")}
StoreTables == {TableName, "Other"}
StoreCounts == 0..(MaxRows + 1)
OtherAction == [type |-> "@@redux/OTHER"]
StoreActions ==
  {createETag(u, e) : u \in StoreRoutes, e \in Rows \cup {UndefRow}}
    \cup {updateETag(u, e) : u \in StoreRoutes, e \in Rows \cup {UndefRow}}
    \cup {deleteETag(u) : u \in StoreRoutes}
    \cup {setCount(t, n) : t \in StoreTables, n \in StoreCounts}
    \cup {OtherAction}

\* store.dispatch(action): combineReducers hands the action to both reducers
Dispatch(action) ==
  /\ etags' = reducer(etags, action)
  /\ counts' = countsReducer(counts, action)
  /\ call' = [f |-> "dispatch", action |-> action, etags |-> etags, counts |-> counts]
  /\ UNCHANGED <<db, nextId, pc, req, loc, reply, res, fails, ops, hist>>

NextStore == \E action \in StoreActions : Dispatch(action)

SpecStore == Init /\ [][NextStore]_vars

\* ------------------------------------------- the functions, on their own
\* Entities as the database returns them: every column, in table order
Entities ==
  {[Row(i, n, u) EXCEPT !.created_dt = c] :
     i \in 1..(MaxRows + 1), n \in Names, c \in {CreatedAt, UpdatedAt},
     u \in {Null, UpdatedAt}}

GenerateETag(entity) ==
  /\ call' = [f |-> "generateETag", entity |-> entity, ret |-> generateETag(entity)]
  /\ UNCHANGED <<db, nextId, etags, counts, pc, req, loc, reply, res, fails, ops, hist>>

\* List requests, and the totals the cache or the count query may give them
PageRequests == {ListReq(l, o) : l \in {Undefined, "1", "5"}, o \in {Undefined, "x", "1", "5"}}

\* retrieveAll's answer to a list request, given the total it read from the
\* cache or the count query
RetrieveAllJson(r, total) ==
  LET limit == orDefault(parseInt(r.limit), DEFAULT_LIMIT)
      offset == orDefault(parseInt(r.offset), 0)
  IN /\ limit <= MAX_RESULTS
     /\ call' = [f |-> "retrieveAll", req |-> r, total |-> total,
                 ret |-> envelope(r, << >>, total, offset, limit)]
     /\ UNCHANGED <<db, nextId, etags, counts, pc, req, loc, reply, res, fails, ops, hist>>

\* The schemas, schemaFields options and request bodies of create and update
Schemas ==
  {ObjectKeys(createSchema(<< <<"name", "TEXT">> >>)),
   ObjectKeys(createSchema(<< <<"name", "TEXT">>, <<"note", "TEXT">> >>))}
SchemaFields ==
  {JSUndefined, JSArray(<< >>), JSArray(<<"name">>), JSArray(<<"note", "name">>),
   JSArray(<<"id", "name">>)}
BodyFields == {"id", "name", "note", "created_dt", "updated_dt", "extra"}
Bodies == UNION {[fs -> {"v"}] : fs \in SUBSET BodyFields}

\* create(name, schema, schemaFields): the columns of the insert statement and
\* the parameters bound to it
CreateParams(schema, schemaFields, body) ==
  /\ LET fields == getFilteredFields(schema, schemaFields)
     IN call' = [f |-> "create", schema |-> schema, schemaFields |-> schemaFields,
                 body |-> body, columns |-> pickKeys(schema, fields),
                 params |-> pick(body, fields)]
  /\ UNCHANGED <<db, nextId, etags, counts, pc, req, loc, reply, res, fails, ops, hist>>

\* update(name, schema, schemaFields): the columns of the set-clause and the
\* parameters bound to the statement
UpdateParams(schema, schemaFields, body, id) ==
  /\ LET fields == getFilteredFields(schema, schemaFields)
     IN call' = [f |-> "update", schema |-> schema, schemaFields |-> schemaFields,
                 body |-> body, id |-> id, columns |-> pickKeys(schema, fields),
                 params |-> withId(id, pick(body, fields))]
  /\ UNCHANGED <<db, nextId, etags, counts, pc, req, loc, reply, res, fails, ops, hist>>

\* The values of options.methods
MethodNames == {GET, GET_ALL, PUT, POST, DELETE, "PATCH"}
MethodOptions ==
  {JSUndefined, JSString("")}
    \cup {JSString(m) : m \in MethodNames}
    \cup {JSArray(<< >>), JSArray(<<GET, GET_ALL, PUT, POST, DELETE>>)}
    \cup {JSArray(<<m>>) : m \in MethodNames}
    \cup {JSArray(<<m, n>>) : m \in MethodNames, n \in MethodNames}

\* The column maps a caller may hand to createSchema and to the query
\* builders: up to MaxCols columns, the schema's own column names included
ColumnNames == {"name", "note", "id", "created_dt", "updated_dt"}
ColumnTypes == {"TEXT", "INTEGER"}
ColumnMaps ==
  {m \in UNION {[1..n -> ColumnNames \X ColumnTypes] : n \in 0..MaxCols} :
     \A i, j \in 1..Len(m) : m[i][1] = m[j][1] => i = j}

CreateSchema(schema) ==
  /\ call' = [f |-> "createSchema", schema |-> schema, ret |-> createSchema(schema)]
  /\ UNCHANGED <<db, nextId, etags, counts, pc, req, loc, reply, res, fails, ops, hist>>

\* The bindings createWhereClause is given: none, a column map, or a list of
\* column names
WhereBindings ==
  {JSUndefined} \cup {JSObject(m) : m \in ColumnMaps}
    \cup {JSArray(<< >>), JSArray(<<"id">>), JSArray(<<"id", "name">>)}

CreateWhereClause(bindings) ==
  /\ call' = [f |-> "createWhereClause", bindings |-> bindings,
              ret |-> createWhereClause(bindings)]
  /\ UNCHANGED <<db, nextId, etags, counts, pc, req, loc, reply, res, fails, ops, hist>>

CreateInsertQuery(values) ==
  /\ call' = [f |-> "createInsertQuery", table |-> TableName, values |-> values,
              ret |-> createInsertQuery(TableName, values)]
  /\ UNCHANGED <<db, nextId, etags, counts, pc, req, loc, reply, res, fails, ops, hist>>

\* The header values and cached tags of the isValidETag tests: absent, empty,
\* 'value' and a different tag; a tag read from the store may also be null
ETagHeaders == {Undefined, "", "value", "other"}
StoredETags == {Undefined, Null, "", "value", "other"}

IsValidETag(headers, tag, fetch) ==
  /\ call' = [f |-> "isValidETag", headers |-> headers, etag |-> tag, fetch |-> fetch,
              ret |-> isValidETag(headers, tag, fetch)]
  /\ UNCHANGED <<db, nextId, etags, counts, pc, req, loc, reply, res, fails, ops, hist>>

CreateCRUDRoute(methods) ==
  /\ call' = [f |-> "createCRUDRoute", methods |-> methods, ret |-> createCRUDRoute(methods)]
  /\ UNCHANGED <<db, nextId, etags, counts, pc, req, loc, reply, res, fails, ops, hist>>

NextFn ==
  \/ \E entity \in Entities : GenerateETag(entity)
  \/ \E r \in PageRequests, total \in 0..MaxTotal : RetrieveAllJson(r, total)
  \/ \E schema \in Schemas, sf \in SchemaFields, body \in Bodies :
       CreateParams(schema, sf, body)
  \/ \E schema \in Schemas, sf \in SchemaFields, body \in Bodies, id \in {"1"} :
       UpdateParams(schema, sf, body, id)
  \/ \E methods \in MethodOptions : CreateCRUDRoute(methods)
  \/ \E schema \in ColumnMaps : CreateSchema(schema)
  \/ \E bindings \in WhereBindings : CreateWhereClause(bindings)
  \/ \E values \in ColumnMaps : CreateInsertQuery(values)
  \/ \E headers \in [ifMatch : ETagHeaders, ifNoneMatch : ETagHeaders], tag \in StoredETags, fetch \in BOOLEAN :
       IsValidETag(headers, tag, fetch)

SpecFn == Init /\ [][NextFn]_vars

\* ==================================================================== claims
\* The id a route addresses
RouteId(u) == CHOOSE i \in Ids : \E v \in Variants : u = Route(i, v)

\* The store's tags without the one of route u
Without(st, u) == [x \in DOMAIN st \ {u} |-> st[x]]

\* The step takes a request of the given method into slot p.
Arrives(p, method) == pc[p] = "idle" /\ pc'[p] # "idle" /\ req'[p].method = method

\* Slot p took a request with r's URL and If-Match header (a slot keeps both of
\* any request it takes).
Took(p, r) == r.url = req'[p].url /\ r.ifMatch = req'[p].ifMatch

\* Slot p holds a finished exchange of the given method.
Done(p, method) == pc[p] = "done" /\ req[p].method = method

\* C1: in every reachable state, a tag cached for a route is the tag computed
\* from the row the database currently stores for that route.
C1_TagsExact ==
  \A u \in DOMAIN etags :
    /\ u \in InstanceRoutes
    /\ db[RouteId(u)] # NullRow
    /\ etags[u] = generateETag(db[RouteId(u)])

\* The If-Match header of r is absent, empty, or not the tag cached for r's
\* route (none cached included).
IfMatchFails(r) ==
  \/ r.ifMatch \in {Undefined, ""}
  \/ r.url \notin DOMAIN etags
  \/ etags[r.url] # r.ifMatch

\* The PUT has its id parameter, an acceptable content type and a non-empty body
\* that the custom validation accepts.
PutShapeOk(r) ==
  /\ r.id # NoId
  /\ r.ctype \in {Undefined, CONTENT_TYPE}
  /\ r.body # EmptyBody
  /\ r.valid

\* The step answered slot p with `status` and nothing else happened: no database
\* statement was issued, and the table and both caches are as they were.
Refused(p, status) ==
  /\ pc'[p] = "done"
  /\ res'[p].sent = <<status>>
  /\ res'[p].q = << >>
  /\ res'[p].json = NoJson
  /\ db' = db /\ etags' = etags /\ counts' = counts

\* C2 (as amended): a PUT that has its id parameter, an acceptable content type
\* and a non-empty body accepted by the validation, and whose If-Match header is
\* absent, empty or different from the tag cached for its route (or none is
\* cached), is answered 412, issues no database statement and leaves the row and
\* both caches unchanged.
C2_Put412 ==
  [][\A p \in Procs : Arrives(p, "PUT") =>
       \A r \in PUTs :
         (PutShapeOk(r) /\ IfMatchFails(r) /\ Took(p, r) /\ StartPUT(p, r))
           => Refused(p, 412)]_vars

\* C2 (as claimed): every PUT whose If-Match header is absent, empty or different
\* from the cached tag is answered 412.
C2_Original ==
  [][\A p \in Procs : Arrives(p, "PUT") =>
       \A r \in PUTs :
         (IfMatchFails(r) /\ Took(p, r) /\ StartPUT(p, r)) => Refused(p, 412)]_vars

\* A well-shaped PUT carrying a tag other than the one cached for its route has
\* been answered 412.
C2_Witness ==
  \E p \in Procs :
    /\ Done(p, "PUT") /\ PutShapeOk(req[p])
    /\ req[p].url \in DOMAIN etags
    /\ Truthy(req[p].ifMatch) /\ req[p].ifMatch # etags[req[p].url]
    /\ res[p].sent = <<412>>

\* C3: a PUT that passed the If-Match and body checks is answered 204, and the
\* next GET of the route that returns the row carries an ETag other than the
\* If-Match tag of that PUT.
C3_Original ==
  \A p \in Procs :
    /\ (Done(p, "PUT") /\ res[p].q # << >>) => Answered(res[p]) = 204
    /\ (Done(p, "GET") /\ loc[p].after.k = "put204" /\ Answered(res[p]) = 200)
         => res[p].etag # loc[p].after.tag

\* C4: a GET with its id parameter, an acceptable content type and an
\* If-None-Match header equal to the non-empty tag cached for its route is
\* answered 304 without a body, reads nothing from the database and leaves the
\* tag cache unchanged.
C4_Get304 ==
  [][\A p \in Procs : Arrives(p, "GET") =>
       \A r \in GETs :
         (/\ r.id # NoId
          /\ r.ctype \in {Undefined, CONTENT_TYPE}
          /\ r.url \in DOMAIN etags
          /\ etags[r.url] # ""
          /\ r.ifNoneMatch = etags[r.url]
          /\ Took(p, r)
          /\ StartGET(p, r)) => Refused(p, 304)]_vars

\* A GET carrying the cached tag of its route, with the JSON content type, has
\* been answered 304.
C4_Witness ==
  \E p \in Procs :
    /\ Done(p, "GET")
    /\ req[p].ctype = CONTENT_TYPE
    /\ req[p].url \in DOMAIN etags
    /\ req[p].ifNoneMatch = etags[req[p].url]
    /\ res[p].sent = <<304>> /\ res[p].q = << >>

\* C5: once a DELETE of a route has been answered 200, a later GET of that route
\* is answered 404 and a later DELETE of that route is answered 404.
C5_Original ==
  \A p \in Procs :
    (pc[p] = "done" /\ req[p].method \in {"GET", "DELETE"} /\ loc[p].after = Del200)
      => Answered(res[p]) = 404

\* C6: a PUT whose If-Match tag is the cached tag of its route passes the check
\* whatever other requests are in flight, and its continuation answers 204
\* whenever its own update statement reported one row, whatever has happened to
\* the cached tag since the check.
C6_NoRecheck ==
  [][\A p \in Procs :
       /\ (/\ Arrives(p, "PUT")
           /\ PutShapeOk(req'[p])
           /\ req'[p].url \in DOMAIN etags
           /\ req'[p].ifMatch = etags[req'[p].url]
           /\ ~bodyIdMismatch(req'[p]))
            => (pc'[p] = "update" /\ res'[p].q = <<"update">>)
       /\ (/\ pc[p] = "update" /\ pc'[p] = "done"
           /\ reply[p] # Rejected /\ reply[p].rowCount = 1)
            => res'[p].sent = <<204>>]_vars

\* A PUT has been answered 204 after another PUT of the same route with the same
\* If-Match tag was answered 204 while it was in flight.
C6_Witness ==
  \E p \in Procs :
    /\ Done(p, "PUT")
    /\ res[p].sent = <<204>>
    /\ loc[p].after = NoHist
    /\ hist[req[p].url] = Put204(req[p].ifMatch)

\* C7: a DELETE whose route has a cached tag and whose If-Match header is absent
\* or different from that tag is answered 412, issues no database statement and
\* leaves the row and both caches unchanged.
C7_Delete412 ==
  [][\A p \in Procs : Arrives(p, "DELETE") =>
       \A r \in DELETEs :
         (/\ r.url \in DOMAIN etags
          /\ (r.ifMatch = Undefined \/ r.ifMatch # etags[r.url])
          /\ Took(p, r)
          /\ StartDELETE(p, r)) => Refused(p, 412)]_vars

\* A DELETE without an If-Match header on a route with a cached tag has been
\* answered 412.
C7_Witness ==
  \E p \in Procs :
    /\ Done(p, "DELETE")
    /\ req[p].url \in DOMAIN etags
    /\ req[p].ifMatch = Undefined
    /\ res[p].sent = <<412>> /\ res[p].q = << >>

\* C8: a DELETE that passed validation and found the row issues the delete
\* statement, which removes the row; when the statement reports one affected row
\* the DELETE is answered 200, the route's tag is cleared and the table's count
\* is reset to 0; otherwise it is answered 500 and both caches are unchanged.
C8_Delete ==
  [][\A p \in Procs :
       /\ (/\ req[p].method = "DELETE" /\ pc[p] = "find" /\ pc'[p] # "find"
           /\ reply[p] # Rejected /\ reply[p].row # NullRow)
            => (/\ pc'[p] = "delete"
                /\ res'[p].q = <<"find", "delete">>
                /\ res'[p].sent = << >>)
       /\ (/\ pc[p] = "delete" /\ res[p].sent = << >>
           /\ reply[p] = Pending /\ reply'[p] \notin {Pending, Rejected})
            => db'[req[p].id] = NullRow
       /\ (pc[p] = "delete" /\ pc'[p] = "done" /\ res[p].sent = << >>)
            => IF reply[p] # Rejected /\ reply[p].rowCount = 1
               THEN /\ res'[p].sent = <<200>>
                    /\ etags' = Without(etags, req[p].url)
                    /\ DOMAIN counts' = DOMAIN counts \cup {TableName}
                    /\ \A t \in DOMAIN counts' :
                         counts'[t] = IF t = TableName THEN 0 ELSE counts[t]
               ELSE /\ res'[p].sent = <<500>>
                    /\ etags' = etags
                    /\ counts' = counts]_vars

\* A DELETE that found the row has been answered 200: the row and the route's
\* tag are gone and the cached count is 0.
C8_Witness ==
  \E p \in Procs :
    /\ Done(p, "DELETE")
    /\ res[p].sent = <<200>> /\ res[p].q = <<"find", "delete">>
    /\ db[req[p].id] = NullRow
    /\ req[p].url \notin DOMAIN etags
    /\ getCount(counts, TableName) = 0

\* C9: a DELETE that passed the id and If-Match checks and whose row is not in
\* the table is answered 404, issues no delete statement and leaves both caches
\* unchanged.
C9_Delete404 ==
  [][\A p \in Procs :
       (/\ req[p].method = "DELETE" /\ pc[p] = "find" /\ pc'[p] # "find"
        /\ reply[p] # Rejected /\ reply[p].row = NullRow)
         => (/\ pc'[p] = "done"
             /\ res'[p].sent = <<404>>
             /\ res'[p].q = <<"find">>
             /\ etags' = etags /\ counts' = counts /\ db' = db)]_vars

\* A DELETE that passed the checks has been answered 404 after its read only.
C9_Witness ==
  \E p \in Procs :
    /\ Done(p, "DELETE")
    /\ res[p].sent = <<404>> /\ res[p].q = <<"find">>
    /\ db[req[p].id] = NullRow

\* The Last-Modified value of a row
LastModified(row) == IF row.updated_dt # Null THEN row.updated_dt ELSE row.created_dt

\* C10 (as amended): a GET that finds the row responds 200 with the entity; its
\* ETag header is the tag that was cached for the route when the request arrived,
\* if there was one, and the tag cache is then left as it is (the tag is neither
\* overwritten nor stored again if it was cleared meanwhile); otherwise the tag
\* is computed from the fetched entity, stored for the route and returned.
\* Last-Modified is the row's updated_dt when present, its created_dt otherwise.
C10_GetFound ==
  [][\A p \in Procs :
       (/\ req[p].method = "GET" /\ pc[p] = "find" /\ pc'[p] # "find"
        /\ reply[p] # Rejected /\ reply[p].row # NullRow)
         => (/\ pc'[p] = "done"
             /\ res'[p].sent = <<200>>
             /\ res'[p].json = [k |-> "entity", row |-> reply[p].row]
             /\ res'[p].ctype = CONTENT_TYPE
             /\ res'[p].lastmod = LastModified(reply[p].row)
             /\ IF loc[p].tag # Null
                THEN res'[p].etag = loc[p].tag /\ etags' = etags
                ELSE /\ res'[p].etag = generateETag(reply[p].row)
                     /\ DOMAIN etags' = DOMAIN etags \cup {req[p].url}
                     /\ \A u \in DOMAIN etags' :
                          etags'[u] = IF u = req[p].url
                                      THEN generateETag(reply[p].row) ELSE etags[u])]_vars

\* C10 (as claimed): the ETag header of a GET answered with the entity is the tag
\* cached for its route once the request is over.
C10_Original ==
  \A p \in Procs :
    (Done(p, "GET") /\ Answered(res[p]) = 200)
      => (req[p].url \in DOMAIN etags /\ res[p].etag = etags[req[p].url])

\* A GET of an updated row on a route without a cached tag has been answered
\* with the entity, the tag computed from it, now cached, and the row's
\* updated_dt as Last-Modified.
C10_Witness ==
  \E p \in Procs :
    /\ Done(p, "GET")
    /\ res[p].sent = <<200>>
    /\ loc[p].tag = Null
    /\ res[p].lastmod = UpdatedAt
    /\ req[p].url \in DOMAIN etags
    /\ res[p].etag = etags[req[p].url]
    /\ res[p].etag = generateETag(res[p].json.row)

\* C11: a GET whose read finds no row is answered 404 without a body or an ETag
\* header, and the tag cache, the count cache and the table are left as they
\* were: no tag is created for the route.
C11_Get404 ==
  [][\A p \in Procs :
       (/\ req[p].method = "GET" /\ pc[p] = "find" /\ pc'[p] # "find"
        /\ reply[p] # Rejected /\ reply[p].row = NullRow)
         => (/\ pc'[p] = "done"
             /\ res'[p].sent = <<404>>
             /\ res'[p].json = NoJson
             /\ res'[p].etag = Undefined
             /\ etags' = etags /\ counts' = counts /\ db' = db)]_vars

\* A GET of a row that is not in the table has been answered 404 and its route
\* has no tag.
C11_Witness ==
  \E p \in Procs :
    /\ Done(p, "GET")
    /\ res[p].sent = <<404>> /\ res[p].q = <<"find">>
    /\ db[req[p].id] = NullRow
    /\ req[p].url \notin DOMAIN etags

\* The counts with the table's count set to n
WithCount(sc, n) ==
  [t \in DOMAIN sc \cup {TableName} |-> IF t = TableName THEN n ELSE sc[t]]

BadContentType(r) == r.ctype # Undefined /\ r.ctype # CONTENT_TYPE

\* C13: a request that fails its handler's validation is answered 400, issues no
\* database statement and leaves the table, the tag cache and the count cache as
\* they were: a GET of one resource without its id or with a bad content type; a
\* POST with a bad content type, an empty body or a body the validator rejects;
\* a PUT without its id, with a bad content type, an empty body or a body the
\* validator rejects; a DELETE without its id; a list request whose limit
\* exceeds MAX_RESULTS.
C13_Invalid400 ==
  [][\A p \in Procs :
       /\ Arrives(p, "GET") =>
            \A r \in GETs :
              ((r.id = NoId \/ BadContentType(r)) /\ Took(p, r) /\ StartGET(p, r))
                => Refused(p, 400)
       /\ Arrives(p, "POST") =>
            \A r \in POSTs :
              ((BadContentType(r) \/ r.body = EmptyBody \/ ~r.valid)
                 /\ Took(p, r) /\ StartPOST(p, r))
                => Refused(p, 400)
       /\ Arrives(p, "PUT") =>
            \A r \in PUTs :
              ((r.id = NoId \/ BadContentType(r) \/ r.body = EmptyBody \/ ~r.valid)
                 /\ Took(p, r) /\ StartPUT(p, r))
                => Refused(p, 400)
       /\ Arrives(p, "DELETE") =>
            \A r \in DELETEs :
              (r.id = NoId /\ Took(p, r) /\ StartDELETE(p, r)) => Refused(p, 400)
       /\ Arrives(p, "GET_ALL") =>
            \A r \in GET_ALLs :
              (r.limit = "51" /\ Took(p, r) /\ StartGET_ALL(p, r)) => Refused(p, 400)]_vars

\* A POST whose body the validator rejects has been answered 400 without an
\* insert.
C13_Witness ==
  \E p \in Procs :
    /\ Done(p, "POST")
    /\ req[p].ctype = Undefined /\ req[p].body # EmptyBody /\ ~req[p].valid
    /\ res[p].sent = <<400>> /\ res[p].q = << >>

\* The body carries an id and its string form is not the path id.
BodyIdDiffers(r) ==
  /\ r.body # EmptyBody
  /\ r.body.id # NoId
  /\ ToString(r.body.id) # ToString(r.id)

\* C14: a PUT with its id parameter, an acceptable content type, a non-empty body
\* the validator accepts and an If-Match header equal to the tag cached for its
\* route, whose body carries an id that differs from the path id, is answered
\* 400, issues no update statement and leaves the row and both caches unchanged.
C14_IdMismatch ==
  [][\A p \in Procs : Arrives(p, "PUT") =>
       \A r \in PUTs :
         (/\ PutShapeOk(r) /\ ~IfMatchFails(r) /\ BodyIdDiffers(r)
          /\ Took(p, r) /\ StartPUT(p, r))
           => Refused(p, 400)]_vars

\* A PUT carrying the cached tag of its route and a body with another id has
\* been answered 400; the row is still what the tag was computed from.
C14_Witness ==
  \E p \in Procs :
    /\ Done(p, "PUT")
    /\ PutShapeOk(req[p]) /\ BodyIdDiffers(req[p])
    /\ req[p].url \in DOMAIN etags
    /\ req[p].ifMatch = etags[req[p].url]
    /\ etags[req[p].url] = generateETag(db[req[p].id])
    /\ res[p].sent = <<400>> /\ res[p].q = << >>

\* C15: a PUT that passes the checks issues the update statement; when the
\* statement reports one affected row the PUT is answered 204 and the tag of its
\* route is removed from the cache; when it reports any other count (none,
\* because the row does not exist) the PUT is answered 500 and the tag cache is
\* unchanged.  The other tags and the count cache are unchanged either way.
C15_Update ==
  [][\A p \in Procs :
       /\ Arrives(p, "PUT") =>
            \A r \in PUTs :
              (/\ PutShapeOk(r) /\ ~IfMatchFails(r) /\ ~BodyIdDiffers(r)
               /\ Took(p, r) /\ StartPUT(p, r))
                => (pc'[p] = "update" /\ res'[p].q = <<"update">> /\ res'[p].sent = << >>)
       /\ (pc[p] = "update" /\ pc'[p] = "done" /\ reply[p] # Rejected)
            => /\ IF reply[p].rowCount = 1
                  THEN res'[p].sent = <<204>> /\ etags' = Without(etags, req[p].url)
                  ELSE res'[p].sent = <<500>> /\ etags' = etags
               /\ counts' = counts]_vars

\* A PUT carrying the cached tag of its route has been answered 500 because its
\* row is not in the table; the tag is still cached.  No database call was
\* rejected.
C15_Witness ==
  \E p \in Procs :
    /\ Done(p, "PUT")
    /\ res[p].sent = <<500>> /\ res[p].q = <<"update">>
    /\ db[req[p].id] = NullRow
    /\ req[p].url \in DOMAIN etags
    /\ etags[req[p].url] = req[p].ifMatch
    /\ fails = 0

\* The number of times statement `at` was issued for the response rs
Issued(rs, at) == LET Is(k) == k = at IN Len(SelectSeq(rs.q, Is))

\* C16: when the database call a handler awaits rejects, the handler's next
\* segment leaves the client answered 500, and the rejected call has been issued
\* once only.
C16_Original ==
  [][\A p \in Procs :
       (reply[p] = Rejected /\ pc'[p] # pc[p])
         => (Answered(res'[p]) = 500 /\ Issued(res'[p], pc[p]) = 1)]_vars

\* The documented status codes
StatusCodes == {200, 201, 204, 304, 400, 404, 412, 500}

\* C17: a handler that has ended has sent exactly one response, with one of the
\* documented status codes.
C17_Original ==
  \A p \in Procs :
    pc[p] = "done" => (Len(res[p].sent) = 1 /\ res[p].sent[1] \in StatusCodes)

C19_Original ==
  \A u, v \in DOMAIN etags :
    (u \in InstanceRoutes /\ v \in InstanceRoutes /\ RouteId(u) = RouteId(v)) => u = v

\* C20: only the continuation of a GET of a route adds a tag for that route (a
\* POST adds none, so a created resource has no tag until a GET of it); a DELETE
\* or a well-shaped PUT of a route without a cached tag is answered 412, issues
\* no database statement and changes nothing; the GET of such a route that finds
\* the row caches and returns the row's tag; a DELETE carrying the tag cached for
\* its route passes the check and reads the row, and is answered 200 when its
\* delete statement reports one row.
C20_Unread ==
  [][/\ \A u \in DOMAIN etags' \ DOMAIN etags :
          \E p \in Procs :
            /\ req[p].method = "GET" /\ req[p].url = u
            /\ pc[p] = "find" /\ pc'[p] = "done"
     /\ \A p \in Procs :
          /\ Arrives(p, "DELETE") =>
               \A r \in DELETEs :
                 (/\ r.id # NoId /\ r.url \notin DOMAIN etags
                  /\ Took(p, r) /\ StartDELETE(p, r)) => Refused(p, 412)
          /\ Arrives(p, "PUT") =>
               \A r \in PUTs :
                 (/\ PutShapeOk(r) /\ r.url \notin DOMAIN etags
                  /\ Took(p, r) /\ StartPUT(p, r)) => Refused(p, 412)
          /\ (/\ req[p].method = "GET" /\ pc[p] = "find" /\ pc'[p] = "done"
              /\ loc[p].tag = Null /\ reply[p] # Rejected /\ reply[p].row # NullRow)
               => (/\ req[p].url \in DOMAIN etags'
                   /\ etags'[req[p].url] = generateETag(reply[p].row)
                   /\ res'[p].etag = etags'[req[p].url])
          /\ Arrives(p, "DELETE") =>
               \A r \in DELETEs :
                 (/\ r.id # NoId /\ r.url \in DOMAIN etags /\ r.ifMatch = etags[r.url]
                  /\ Took(p, r) /\ StartDELETE(p, r))
                   => (pc'[p] = "find" /\ res'[p].q = <<"find">> /\ res'[p].sent = << >>)
          /\ (/\ pc[p] = "delete" /\ pc'[p] = "done" /\ res[p].sent = << >>
              /\ reply[p] # Rejected /\ reply[p].rowCount = 1)
               => res'[p].sent = <<200>>]_vars

\* A row inserted by a POST and not read since (no URL of it has a tag and no GET
\* is in flight): a DELETE of it carrying the very tag of the row has been
\* answered 412 without a database statement.
C20_Witness ==
  \E p \in Procs :
    /\ Done(p, "DELETE")
    /\ res[p].sent = <<412>> /\ res[p].q = << >>
    /\ req[p].id # NoId
    /\ db[req[p].id] = Row(req[p].id, "b", Null)
    /\ req[p].ifMatch = generateETag(db[req[p].id])
    /\ \A v \in Variants : Route(req[p].id, v) \notin DOMAIN etags
    /\ \A q \in Procs : req[q].method # "GET"

\* The store's tags with route u mapped to tag t
WithTag(st, u, t) == [x \in DOMAIN st \cup {u} |-> IF x = u THEN t ELSE st[x]]

\* C21 (as amended): a route has no tag until a GET of that route runs its
\* continuation: a GET that found no tag cached when it arrived and whose lookup
\* did not return null caches the tag computed from what the lookup returned
\* (undefined when the lookup rejected), and no other step adds a tag.  A create, answered 201 or not, leaves the tag
\* cache as it was; an update answered 204 and a delete answered 200 remove the
\* tag of their route and no other.
C21_Lifecycle ==
  [][/\ \A u \in DOMAIN etags' \ DOMAIN etags :
          \E p \in Procs :
            /\ req[p].method = "GET" /\ req[p].url = u
            /\ pc[p] = "find" /\ pc'[p] = "done"
            /\ ~Truthy(loc[p].tag)
     /\ \A p \in Procs :
          /\ (req[p].method = "GET" /\ pc[p] = "find" /\ pc'[p] = "done"
                /\ ~Truthy(loc[p].tag)
                /\ (reply[p] = Rejected \/ reply[p].row # NullRow))
               => etags' = WithTag(etags, req[p].url,
                                   generateETag(IF reply[p] = Rejected THEN UndefRow
                                                ELSE reply[p].row))
          /\ (pc[p] = "insert" /\ pc'[p] = "done") => etags' = etags
          /\ (pc[p] = "update" /\ pc'[p] = "done" /\ Answered(res'[p]) = 204)
               => etags' = Without(etags, req[p].url)
          /\ (pc[p] = "delete" /\ pc'[p] = "done" /\ Answered(res'[p]) = 200)
               => etags' = Without(etags, req[p].url)]_vars

\* C21 (as claimed): after a create answered 201 a tag is cached for the new
\* row's route, after an update answered 204 a tag is cached for the route, and
\* after a delete answered 200 none is.
C21_Original ==
  [][\A p \in Procs :
       /\ (pc[p] = "insert" /\ pc'[p] = "done" /\ Answered(res'[p]) = 201)
            => \E v \in Variants : Route(reply[p].id, v) \in DOMAIN etags'
       /\ (pc[p] = "update" /\ pc'[p] = "done" /\ Answered(res'[p]) = 204)
            => req[p].url \in DOMAIN etags'
       /\ (pc[p] = "delete" /\ pc'[p] = "done" /\ Answered(res'[p]) = 200)
            => req[p].url \notin DOMAIN etags']_vars

\* With no database call rejected, an update has been answered 204 and its
\* route has no tag, while a tag is cached for another route.
C21_Witness ==
  \E p \in Procs :
    /\ Done(p, "PUT") /\ Answered(res[p]) = 204
    /\ req[p].url \notin DOMAIN etags
    /\ DOMAIN etags # {}
    /\ fails = 0

\* The list request with the given URL
ListOf(url) == CHOOSE r \in GET_ALLs : r.url = url

\* The query parameter is absent or does not parse as a number.
Unparsed(s) == s = Undefined \/ parseInt(s).nan

\* The number a query parameter stands for: the parsed one, or d when the
\* parameter is absent, unparseable or 0
Parsed(s, d) == IF Unparsed(s) \/ parseInt(s).n = 0 THEN d ELSE parseInt(s).n

\* C22: a list request whose parsed limit exceeds MAX_RESULTS (50) is answered
\* 400 and issues no database query.  A list request whose limit is absent or
\* unparseable runs its page query with limit DEFAULT_LIMIT (10), one whose
\* offset is absent or unparseable runs it with offset 0, and the envelope it
\* answers with reports these values in meta.
C22_Limits ==
  [][\A p \in Procs :
       /\ Arrives(p, "GET_ALL") =>
            \A r \in GET_ALLs :
              (Took(p, r) /\ StartGET_ALL(p, r)) =>
                /\ (~Unparsed(r.limit) /\ parseInt(r.limit).n > MAX_RESULTS)
                     => Refused(p, 400)
                /\ Unparsed(r.limit)
                     => (/\ pc'[p] = "page" /\ res'[p].q = <<"page">>
                         /\ loc'[p].limit = DEFAULT_LIMIT)
                /\ (Unparsed(r.offset) /\ pc'[p] = "page") => loc'[p].offset = 0
       /\ (pc[p] = "page" /\ reply[p] = Pending /\ reply'[p] # Pending /\ fails' = fails) =>
            LET r == ListOf(req[p].url)
                limit == Parsed(r.limit, DEFAULT_LIMIT)
                offset == Parsed(r.offset, 0)
                rows == dbPage(db, limit, offset)
            IN reply'[p] = IF limit < 0 \/ offset < 0 \/ rows = << >>
                           THEN Rejected ELSE [k |-> "many", rows |-> rows]
       /\ (req[p].method = "GET_ALL" /\ pc'[p] = "done" /\ res'[p].json.k = "list") =>
            LET r == ListOf(req[p].url)
            IN /\ Unparsed(r.limit) => res'[p].json.meta.limit = DEFAULT_LIMIT
               /\ Unparsed(r.offset) => res'[p].json.meta.offset = 0]_vars

\* A list request with an unparseable limit and no offset has been answered
\* with an envelope holding the table's row, limit 10 and offset 0.
C22_Witness ==
  \E p \in Procs :
    /\ Done(p, "GET_ALL") /\ req[p].url = ListUrl("x", Undefined)
    /\ res[p].sent = <<200>>
    /\ res[p].json.k = "list" /\ Len(res[p].json.data) = 1
    /\ res[p].json.meta.limit = 10 /\ res[p].json.meta.offset = 0

\* The URL of the collection's page at the given offset
PageLink(offset, limit) ==
  SERVER_URL \o Route(NoId, "") \o "?offset=" \o ToString(offset)
    \o "&limit=" \o ToString(limit)

\* C23: in a list response meta.next is non-null exactly when offset + limit <
\* total and is then the link to the collection at offset + limit, and
\* meta.previous is non-null exactly when offset > 0 and is then the link to the
\* collection at max(0, offset - limit), both with the same limit.
C23_Original ==
  call.f = "retrieveAll" =>
    LET meta == call.ret.meta
        limit == Parsed(call.req.limit, DEFAULT_LIMIT)
        offset == Parsed(call.req.offset, 0)
        back == IF offset - limit > 0 THEN offset - limit ELSE 0
    IN /\ (meta.next # Null) <=> (offset + limit < call.total)
       /\ meta.next # Null => meta.next = PageLink(offset + limit, limit)
       /\ (meta.previous # Null) <=> (offset > 0)
       /\ meta.previous # Null => meta.previous = PageLink(back, limit)

\* The count the store holds for the table (NoCount: none)
CachedCount == IF TableName \in DOMAIN counts THEN counts[TableName] ELSE NoCount

\* C24: when the page query of a list request has returned and the store holds
\* a non-zero count for the table, the request answers without a count query,
\* reports that count as meta.total and leaves the count cache as it is; when
\* the store holds no count or 0, the request issues a count query, which
\* counts the table's rows, stores its result in the count cache and reports it
\* as meta.total.
C24_CachedCount ==
  [][\A p \in Procs :
       /\ (pc[p] = "page" /\ pc'[p] # "page") =>
            IF CachedCount \notin {NoCount, 0}
            THEN /\ pc'[p] = "done" /\ res'[p].q = res[p].q
                 /\ counts' = counts
                 /\ res'[p].json.k = "list" => res'[p].json.meta.total = CachedCount
            ELSE /\ pc'[p] = "count" /\ res'[p].q = Append(res[p].q, "count")
                 /\ reply'[p] = Pending
       /\ (pc[p] = "count" /\ reply[p] = Pending /\ reply'[p] \notin {Pending, Rejected})
            => reply'[p].count = dbCount(db)
       /\ (pc[p] = "count" /\ pc'[p] = "done" /\ reply[p] # Rejected) =>
            /\ counts' = WithCount(counts, reply[p].count)
            /\ res'[p].json.k = "list" => res'[p].json.meta.total = reply[p].count]_vars

\* With no database call rejected, a list request has been answered from the
\* cached count: it issued the page query only and reports the stored count.
C24_Witness ==
  \E p \in Procs :
    /\ Done(p, "GET_ALL") /\ res[p].sent = <<200>>
    /\ res[p].q = <<"page">>
    /\ CachedCount > 0
    /\ res[p].json.k = "list" /\ res[p].json.meta.total = CachedCount
    /\ fails = 0

\* The entities a tag action carries
TagEntities == Rows \cup {UndefRow}

\* C25: for every state of the tag cache, route and entity, the reducer gives
\* the same state for the record-tag action and for the update-tag action: the
\* state in which the route maps to the tag computed from the entity, whether
\* or not it had a tag, and every other route has the tag it had.  A dispatch
\* of either action leaves the store in that state, with the counts unchanged.
C25_RecordUpdate ==
  /\ \A u \in StoreRoutes, e \in TagEntities :
       /\ reducer(etags, createETag(u, e)) = reducer(etags, updateETag(u, e))
       /\ reducer(etags, createETag(u, e)) = WithTag(etags, u, generateETag(e))
  /\ (call.f = "dispatch" /\ call.action.type \in {"CREATE_ETAG", "UPDATE_ETAG"}) =>
       /\ etags = WithTag(call.etags, call.action.route, generateETag(call.action.entity))
       /\ counts = call.counts

\* An update-tag action has replaced the tag of a route that had one, while
\* another route keeps its tag.
C25_Witness ==
  /\ call.f = "dispatch" /\ call.action.type = "UPDATE_ETAG"
  /\ call.action.route \in DOMAIN call.etags
  /\ call.etags[call.action.route] # etags[call.action.route]
  /\ \E u \in DOMAIN etags : u # call.action.route /\ etags[u] = call.etags[u]

\* C26: for every state of the tag cache and route, the clear-tag action gives
\* the state without that route's entry and with every other entry as it was,
\* which is the same state when the route has no entry; an action of another
\* type gives the state unchanged.  A dispatch leaves the store accordingly.
C26_Clear ==
  /\ \A u \in StoreRoutes :
       /\ reducer(etags, deleteETag(u)) = Without(etags, u)
       /\ u \notin DOMAIN etags => reducer(etags, deleteETag(u)) = etags
  /\ \A a \in {OtherAction} \cup {setCount(t, n) : t \in StoreTables, n \in StoreCounts} :
       reducer(etags, a) = etags
  /\ (call.f = "dispatch" /\ call.action.type = "DELETE_ETAG") =>
       /\ etags = Without(call.etags, call.action.route)
       /\ counts = call.counts
  /\ (call.f = "dispatch"
        /\ call.action.type \notin {"CREATE_ETAG", "UPDATE_ETAG", "DELETE_ETAG"}) =>
       etags = call.etags

\* A clear-tag action has removed the tag of a route that had one, while
\* another route keeps its tag.
C26_Witness ==
  /\ call.f = "dispatch" /\ call.action.type = "DELETE_ETAG"
  /\ call.action.route \in DOMAIN call.etags
  /\ call.action.route \notin DOMAIN etags
  /\ \E u \in DOMAIN etags : etags[u] = call.etags[u]

\* The counts with the count of table t set to n
WithCountOf(sc, t, n) == [x \in DOMAIN sc \cup {t} |-> IF x = t THEN n ELSE sc[x]]

\* C27: for every state of the count cache, table and count (0 included), the
\* set-count action gives the state in which the table has that count and every
\* other table the count it had; an action of another type gives the state
\* unchanged; the count cache is empty before any action is dispatched.
C27_SetCount ==
  /\ \A t \in StoreTables, n \in StoreCounts :
       countsReducer(counts, setCount(t, n)) = WithCountOf(counts, t, n)
  /\ \A a \in StoreActions : a.type # "SET_COUNT" => countsReducer(counts, a) = counts
  /\ (call.f = "dispatch" /\ call.action.type = "SET_COUNT") =>
       /\ counts = WithCountOf(call.counts, call.action.route, call.action.count)
       /\ etags = call.etags
  /\ (call.f = "dispatch" /\ call.action.type # "SET_COUNT") => counts = call.counts
  /\ call = NoCall => counts = << >>

\* A set-count action has set the count of a table that had another count to
\* 0, while another table keeps its count.
C27_Witness ==
  /\ call.f = "dispatch" /\ call.action.type = "SET_COUNT"
  /\ call.action.count = 0
  /\ call.action.route \in DOMAIN call.counts
  /\ call.counts[call.action.route] > 0
  /\ counts[call.action.route] = 0
  /\ \E t \in DOMAIN counts : t # call.action.route /\ counts[t] = call.counts[t]

\* The fields of an entity other than created_dt and updated_dt
NonAudit(entity) == [id |-> entity.id, name |-> entity.name]

\* C28: the tag computed from an entity is a function of its non-audit fields:
\* computing it again gives the same tag, an entity with the same id and name
\* gets the same tag whatever its created_dt and updated_dt, and an entity with
\* another id or another name gets another tag.
C28_TagFields ==
  call.f = "generateETag" =>
    /\ call.ret = generateETag(call.entity)
    /\ \A e \in Entities :
         (NonAudit(e) = NonAudit(call.entity)) <=> (generateETag(e) = call.ret)

\* A tag has been computed from an updated entity; an entity that differs from
\* it in both audit fields only has the same tag, and one that differs in the id
\* only has another.
C28_Witness ==
  /\ call.f = "generateETag"
  /\ call.entity.updated_dt = UpdatedAt
  /\ \E e \in Entities :
       /\ NonAudit(e) = NonAudit(call.entity)
       /\ e.created_dt # call.entity.created_dt /\ e.updated_dt # call.entity.updated_dt
       /\ generateETag(e) = call.ret
  /\ \E e \in Entities :
       /\ e.id # call.entity.id /\ [e EXCEPT !.id = call.entity.id] = call.entity
       /\ generateETag(e) # call.ret

\* The write field subset: the explicit schemaFields list when it is non-empty,
\* otherwise the schema's keys except id, created_dt and updated_dt
WriteSubset(schema, schemaFields) ==
  IF schemaFields # JSUndefined /\ schemaFields.v # << >>
  THEN Elems(schemaFields.v)
  ELSE Elems(schema) \ {"id", "created_dt", "updated_dt"}

\* C29: the columns of create's insert statement and of update's set-clause
\* are fields of the write field subset, and the parameters bound to the
\* statement are the body's fields of that subset with the body's values (for
\* update, together with the id of the path); no other field of the body is
\* bound.
C29_WriteFields ==
  call.f \in {"create", "update"} =>
    LET subset == WriteSubset(call.schema, call.schemaFields)
        bound == subset \cap DOMAIN call.body
    IN /\ Elems(call.columns) \subseteq subset
       /\ DOMAIN call.params = bound \cup (IF call.f = "update" THEN {"id"} ELSE {})
       /\ \A f \in bound : call.params[f] = call.body[f]
       /\ (call.f = "update" /\ "id" \notin bound) => call.params["id"] = call.id

\* An update with no schemaFields option whose body carries id, name,
\* created_dt, updated_dt and a field outside the schema has bound the body's
\* name and the path's id only.
C29_Witness ==
  /\ call.f = "update" /\ call.schemaFields = JSUndefined
  /\ {"id", "name", "created_dt", "updated_dt", "extra"} \subseteq DOMAIN call.body
  /\ DOMAIN call.params = {"id", "name"}
  /\ call.params["id"] = call.id /\ call.params["id"] # call.body["id"]
  /\ call.columns = <<"name">>

\* The binding of each CRUD method: its verb, its sub-path and its handler
BindingOf(m) ==
  CASE m = "GET_ALL" -> Binding("get", "/", "retrieveAll")
    [] m = "POST" -> Binding("post", "/", "create")
    [] m = "GET" -> Binding("get", "/:id", "retrieve")
    [] m = "PUT" -> Binding("put", "/:id", "update")
    [] m = "DELETE" -> Binding("delete", "/:id", "remove")

Five == {"GET_ALL", "POST", "GET", "PUT", "DELETE"}

\* The method names that options.methods stands for: all five when it is
\* omitted (undefined, or the empty string, which is as false as undefined), the
\* one name when it is a string, the names listed when it is an array
NamedMethods(methods) ==
  IF methods \in {JSUndefined, JSString("")} THEN Five
  ELSE IF methods.k = "string" THEN {methods.v}
  ELSE Elems(methods.v)

\* C30: the router createCRUDRoute returns has one binding for each of the five
\* methods that options.methods names (GET_ALL and POST on '/', GET, PUT and
\* DELETE on '/:id') and no other binding; with methods omitted it has all five,
\* and a method given as a (non-empty) string is bound as the list of that one
\* method is.
C30_Bindings ==
  call.f = "createCRUDRoute" =>
    LET named == NamedMethods(call.methods) \cap Five
    IN /\ Elems(call.ret) = {BindingOf(m) : m \in named}
       /\ Len(call.ret) = Cardinality(named)
       /\ call.methods = JSUndefined => Elems(call.ret) = {BindingOf(m) : m \in Five}
       /\ (call.methods.k = "string" /\ call.methods.v # "") =>
            call.ret = createCRUDRoute(JSArray(<<call.methods.v>>))

\* Given the string 'GET_ALL', createCRUDRoute has bound the list handler on
\* '/' and nothing else.
C30_Witness ==
  /\ call.f = "createCRUDRoute"
  /\ call.methods = JSString("GET_ALL")
  /\ call.ret = <<Binding("get", "/", "retrieveAll")>>

\* C31: for every column map, createSchema gives an object whose keys are
\* the map's keys together with id, created_dt and updated_dt, each once and no
\* other; every column of the map other than created_dt and updated_dt has the
\* map's type; created_dt and updated_dt have the standard audit types, also
\* when the map has those keys; id is SERIAL unless the map gives it a type.
C31_Schema ==
  call.f = "createSchema" =>
    LET s == call.schema
        out == call.ret
    IN /\ Elems(ObjectKeys(out)) = Elems(ObjectKeys(s)) \cup {"id", "created_dt", "updated_dt"}
       /\ Len(out) = Cardinality(Elems(ObjectKeys(out)))
       /\ \A i \in 1..Len(s) :
            s[i][1] \notin {"created_dt", "updated_dt"} => valueOf(out, s[i][1]) = s[i][2]
       /\ valueOf(out, "created_dt") = "TIMESTAMP WITH TIME ZONE DEFAULT CURRENT_TIMESTAMP"
       /\ valueOf(out, "updated_dt") = "TIMESTAMP"
       /\ ~hasKey(s, "id") => valueOf(out, "id") = "SERIAL"

\* createSchema has been given a map with a name column and a created_dt
\* column of its own type: the name keeps its type and created_dt has the
\* standard one.
C31_Witness ==
  /\ call.f = "createSchema"
  /\ call.schema = << <<"name", "TEXT">>, <<"created_dt", "INTEGER">> >>
  /\ ObjectKeys(call.ret) = <<"id", "name", "created_dt", "updated_dt">>
  /\ valueOf(call.ret, "name") = "TEXT"
  /\ valueOf(call.ret, "created_dt") # "INTEGER"

\* The predicates 'col = $<col>' of the given columns, joined by ' and '
RECURSIVE Predicates(_)
Predicates(cols) ==
  IF cols = << >> THEN ""
  ELSE cols[1] \o " = $<" \o cols[1] \o ">"
         \o (IF Len(cols) > 1 THEN " and " ELSE "") \o Predicates(Tail(cols))

\* C32: for every column map, createWhereClause gives the empty string exactly
\* when the map is absent or has no key; otherwise it gives ' where ' followed
\* by one 'col = $<col>' predicate per key, in key order, with ' and ' between
\* two predicates and nothing after the last.
C32_WhereClause ==
  (call.f = "createWhereClause" /\ call.bindings.k # "array") =>
    LET absent == call.bindings = JSUndefined
        empty == absent \/ call.bindings.v = << >>
    IN /\ (call.ret = "") <=> empty
       /\ ~empty => call.ret = " where " \o Predicates(ObjectKeys(call.bindings.v))

\* createWhereClause has been given a map of two columns.
C32_Witness ==
  /\ call.f = "createWhereClause"
  /\ call.bindings = JSObject(<< <<"id", "INTEGER">>, <<"name", "TEXT">> >>)
  /\ call.ret = " where id = $<id> and name = $<name>"

\* The texts joined with the separator between two of them
RECURSIVE Joined(_, _)
Joined(texts, sep) ==
  IF texts = << >> THEN ""
  ELSE texts[1] \o (IF Len(texts) > 1 THEN sep ELSE "") \o Joined(Tail(texts), sep)

\* C33: for every non-empty column map, createInsertQuery gives
\* 'insert into <table>(<columns>) values (<placeholders>) returning id' with
\* every column name once and, in the same order, one '$<name>' placeholder per
\* column (separated by ',' or ', ', with or without a space after 'values').
C33_Original ==
  (call.f = "createInsertQuery" /\ call.values # << >>) =>
    LET names == ObjectKeys(call.values)
        holders == [i \in 1..Len(names) |-> "$<" \o names[i] \o ">"]
    IN \E a, b \in {",", ", "}, values \in {") values (", ") values("} :
         call.ret = "insert into " \o call.table \o "(" \o Joined(names, a)
                      \o values \o Joined(holders, b) \o ") returning id"

C35_ShapeFirst ==
  [][\A p \in Procs :
       Arrives(p, "PUT") =>
         \A r \in PUTs :
           (Took(p, r) /\ StartPUT(p, r)) =>
             /\ ~PutShapeOk(r) => Refused(p, 400)
             /\ res'[p].sent = <<412>> => (PutShapeOk(r) /\ IfMatchFails(r))]_vars

\* A PUT with an empty body whose If-Match differs from the tag cached for its
\* route has been answered 400.
C35_Witness ==
  \E p \in Procs :
    /\ Done(p, "PUT")
    /\ req[p].body = EmptyBody
    /\ req[p].url \in DOMAIN etags
    /\ req[p].ifMatch \notin {Undefined, "", etags[req[p].url]}
    /\ res[p].sent = <<400>> /\ res[p].q = << >>

\* C36: once a PUT on a route has been answered 204, and until a GET of that
\* route arrives or completes, every PUT or DELETE that arrives for the route is
\* answered 412 whatever its If-Match header is (the tag the update used
\* included), because the update removed the cached tag.  A GET that arrives
\* after the 204 and is answered 200 caches the tag it returns, and a PUT or
\* DELETE whose If-Match is the cached tag is not answered 412.
C36_WritesNeedGet ==
  [][\A p \in Procs :
       /\ Arrives(p, "PUT") =>
            \A r \in PUTs :
              (Took(p, r) /\ StartPUT(p, r)) =>
                /\ (PutShapeOk(r) /\ hist[r.url].k = "put204") => Refused(p, 412)
                /\ (r.url \in DOMAIN etags /\ r.ifMatch = etags[r.url])
                     => res'[p].sent # <<412>>
       /\ Arrives(p, "DELETE") =>
            \A r \in DELETEs :
              (Took(p, r) /\ StartDELETE(p, r)) =>
                /\ hist[r.url].k = "put204" => Refused(p, 412)
                /\ (r.url \in DOMAIN etags /\ r.ifMatch = etags[r.url])
                     => res'[p].sent # <<412>>
       /\ (/\ req[p].method = "GET" /\ pc[p] = "find" /\ pc'[p] = "done"
           /\ loc[p].after.k = "put204"
           /\ Answered(res'[p]) = 200)
            => (/\ req[p].url \in DOMAIN etags'
                /\ etags'[req[p].url] = res'[p].etag
                /\ Truthy(res'[p].etag))]_vars

\* A PUT carrying the very tag that the preceding PUT of its route was answered
\* 204 with has been answered 412.
C36_Witness ==
  \E p \in Procs :
    /\ Done(p, "PUT")
    /\ loc[p].after.k = "put204"
    /\ req[p].ifMatch = loc[p].after.tag
    /\ res[p].sent = <<412>>

\* C37: when the existence check of a DELETE (find by id) is rejected by the
\* database, the handler answers 500 and stops: it issues no delete statement,
\* and the table, the tag cache and the count cache are as they were.
C37_Original ==
  [][\A p \in Procs :
       (/\ req[p].method = "DELETE" /\ pc[p] = "find" /\ reply[p] = Rejected
        /\ pc'[p] # "find")
         => (/\ pc'[p] = "done"
             /\ res'[p].sent = <<500>>
             /\ res'[p].q = <<"find">>
             /\ db' = db /\ etags' = etags /\ counts' = counts)]_vars

\* C38: when the database read of a GET of one resource is rejected, the
\* handler's continuation leaves the tag cache unchanged; and whenever a step
\* stores a tag, it is the tag computed from a row that the database returned to
\* a GET of that route.
C38_Original ==
  [][/\ \A p \in Procs :
          (/\ req[p].method = "GET" /\ pc[p] = "find" /\ reply[p] = Rejected
           /\ pc'[p] # "find")
            => etags' = etags
     /\ \A u \in DOMAIN etags' :
          (u \notin DOMAIN etags \/ etags'[u] # etags[u])
            => \E p \in Procs :
                 /\ req[p].method = "GET" /\ req[p].url = u
                 /\ pc[p] = "find" /\ reply[p].k = "row" /\ reply[p].row # NullRow
                 /\ etags'[u] = generateETag(reply[p].row)]_vars

C40_Original ==
  [][\A p \in Procs :
       (pc[p] = "idle" /\ pc'[p] = "page")
         => (/\ 1 <= loc'[p].limit /\ loc'[p].limit <= MAX_RESULTS
             /\ loc'[p].offset >= 0)]_vars

====
